---- MODULE Spec2Model ----
(***************************************************************************)
(* TOON codec (tooner): lexical rules, key parser, primitive codec and the  *)
(* line-oriented decoder, modelled as operators over sequences of           *)
(* one-character strings, applied by the actions below to bounded inputs.   *)
(***************************************************************************)
EXTENDS Integers, Sequences, FiniteSets, TLC

VARIABLES pc, input, output
vars == <<pc, input, output>>

(***************************************************************************)
(* Characters and JavaScript string primitives                              *)
(***************************************************************************)
BS == "\\"
DQ == "\""
LF == "\n"
CR == "\r"
TAB == "\t"
SP == " "

Digit == {"0", "1", "2", "3", "4", "5", "6", "7", "8", "9"}
Lower == {"a", "b", "c", "d", "e", "f", "g", "h", "i", "j", "k", "l", "m",
          "n", "o", "p", "q", "r", "s", "t", "u", "v", "w", "x", "y", "z"}
Upper == {"A", "B", "C", "D", "E", "F", "G", "H", "I", "J", "K", "L", "M",
          "N", "O", "P", "Q", "R", "S", "T", "U", "V", "W", "X", "Y", "Z"}
\* \w of a JavaScript regular expression
WordChar == Digit \cup Lower \cup Upper \cup {"_"}
\* \s of a JavaScript regular expression, and the characters trim() removes
WhiteSpace == {SP, TAB, LF, CR}
\* characters the regular-expression dot does not match
LineTerminator == {LF, CR}
\* the characters from U+0080 up that the safe pattern admits
NonAscii == {"é"}

Undefined == -1

DigitVal(c) ==
  CASE c = "0" -> 0 [] c = "1" -> 1 [] c = "2" -> 2 [] c = "3" -> 3
    [] c = "4" -> 4 [] c = "5" -> 5 [] c = "6" -> 6 [] c = "7" -> 7
    [] c = "8" -> 8 [] c = "9" -> 9

DigitChar(n) ==
  CASE n = 0 -> "0" [] n = 1 -> "1" [] n = 2 -> "2" [] n = 3 -> "3"
    [] n = 4 -> "4" [] n = 5 -> "5" [] n = 6 -> "6" [] n = 7 -> "7"
    [] n = 8 -> "8" [] n = 9 -> "9"

\* str.slice(from) with a 1-based first index
Drop(s, from) == SubSeq(s, from, Len(s))
Take(s, n) == SubSeq(s, 1, n)

\* str.startsWith(p)
StartsWith(s, p) == Len(s) >= Len(p) /\ SubSeq(s, 1, Len(p)) = p
\* str.endsWith(p)
EndsWith(s, p) == Len(s) >= Len(p) /\ SubSeq(s, Len(s) - Len(p) + 1, Len(s)) = p
\* str.includes(c) for a one-character needle
Includes(s, c) == \E i \in 1..Len(s) : s[i] = c

\* length of the longest prefix of s, taken from position i, whose
\* characters all lie in the class cls
RECURSIVE RunEnd(_, _, _)
RunEnd(s, i, cls) ==
  IF i <= Len(s) /\ s[i] \in cls THEN RunEnd(s, i + 1, cls) ELSE i

RECURSIVE RunStartBack(_, _, _)
RunStartBack(s, i, cls) ==
  IF i >= 1 /\ s[i] \in cls THEN RunStartBack(s, i - 1, cls) ELSE i

\* str.trim()
Trim(s) ==
  LET b == RunEnd(s, 1, WhiteSpace)
      e == RunStartBack(s, Len(s), WhiteSpace)
  IN IF b > e THEN <<>> ELSE SubSeq(s, b, e)

\* str.split('\n')
RECURSIVE SplitLines(_, _, _)
SplitLines(s, i, cur) ==
  IF i > Len(s) THEN <<cur>>
  ELSE IF s[i] = LF THEN <<cur>> \o SplitLines(s, i + 1, <<>>)
  ELSE SplitLines(s, i + 1, Append(cur, s[i]))

\* parts.join(sep)
RECURSIVE Join(_, _)
Join(parts, sep) ==
  IF Len(parts) = 0 THEN <<>>
  ELSE IF Len(parts) = 1 THEN parts[1]
  ELSE parts[1] \o sep \o Join(Tail(parts), sep)

\* str.split('.')
RECURSIVE SplitOn(_, _, _, _)
SplitOn(s, c, i, cur) ==
  IF i > Len(s) THEN <<cur>>
  ELSE IF s[i] = c THEN <<cur>> \o SplitOn(s, c, i + 1, <<>>)
  ELSE SplitOn(s, c, i + 1, Append(cur, s[i]))

\* str.replace(/p/g, rep) for a literal pattern p: leftmost, non-overlapping
RECURSIVE ReplaceAll(_, _, _)
ReplaceAll(s, p, rep) ==
  IF Len(s) = 0 THEN <<>>
  ELSE IF StartsWith(s, p) THEN rep \o ReplaceAll(Drop(s, Len(p) + 1), p, rep)
  ELSE <<s[1]>> \o ReplaceAll(Tail(s), p, rep)

(***************************************************************************)
(* Values, errors and results                                               *)
(***************************************************************************)
\* ToonValue: one record shape for every variant
VNull == [t |-> "null", s |-> <<>>, n |-> <<>>, k |-> <<>>, a |-> <<>>]
VBool(b) == [t |-> IF b THEN "true" ELSE "false",
             s |-> <<>>, n |-> <<>>, k |-> <<>>, a |-> <<>>]
\* a number is sign, mantissa and decimal exponent: (-1)^neg * m * 10^e
VNum(neg, m, e) == [t |-> "num", s |-> <<>>, n |-> <<neg, m, e>>,
                    k |-> <<>>, a |-> <<>>]
VStr(str) == [t |-> "str", s |-> str, n |-> <<>>, k |-> <<>>, a |-> <<>>]
VArr(elems) == [t |-> "arr", s |-> <<>>, n |-> <<>>, k |-> <<>>, a |-> elems]
\* an object is its key list, in Object.keys order, and the values in step
VObj(keys, vals) == [t |-> "obj", s |-> <<>>, n |-> <<>>, k |-> keys, a |-> vals]
EmptyObj == VObj(<<>>, <<>>)

NoErr == [kind |-> "none", msg |-> "", line |-> Undefined, args |-> <<>>]
\* new ToonDecodeError(msg, line)
ToonDecodeError(msg, line, args) ==
  [kind |-> "ToonDecodeError", msg |-> msg, line |-> line, args |-> args]
\* new Error(msg): no line property
PlainError(msg) ==
  [kind |-> "Error", msg |-> msg, line |-> Undefined, args |-> <<>>]
\* a fault raised by the runtime (property access on undefined or null)
TypeError(msg) ==
  [kind |-> "TypeError", msg |-> msg, line |-> Undefined, args |-> <<>>]

Ret(v) == [err |-> NoErr, v |-> v]
Throw(e) == [err |-> e, v |-> <<>>]
Failed(r) == r.err.kind # "none"

(***************************************************************************)
(* 4.A Lexical rules (utils/string.ts)                                      *)
(***************************************************************************)
RECURSIVE RunEndNot(_, _, _)
RunEndNot(s, i, cls) ==
  IF i <= Len(s) /\ s[i] \notin cls THEN RunEndNot(s, i + 1, cls) ELSE i

\* where a match of -?\d+(\.\d+)?([eE][+-]?\d+)? starting at 1 ends; 0 if none
NumberEnd(s) ==
  LET i0 == IF Len(s) >= 1 /\ s[1] = "-" THEN 2 ELSE 1
      i1 == RunEnd(s, i0, Digit)
      f  == RunEnd(s, i1 + 1, Digit)
      i2 == IF i1 <= Len(s) /\ s[i1] = "." /\ f > i1 + 1 THEN f ELSE i1
      j  == IF i2 + 1 <= Len(s) /\ s[i2 + 1] \in {"+", "-"} THEN i2 + 2 ELSE i2 + 1
      x  == RunEnd(s, j, Digit)
      i3 == IF i2 <= Len(s) /\ s[i2] \in {"e", "E"} /\ x > j THEN x ELSE i2
  IN IF i1 > i0 THEN i3 ELSE 0

\* /^-?\d+(\.\d+)?(e[+-]?\d+)?$/i.test(s)
IsNumberLexeme(s) == NumberEnd(s) = Len(s) + 1

needsQuoting_noTrimCheck(str, delimiter) ==
  \/ Len(str) = 0
  \/ str \in {<<"t", "r", "u", "e">>, <<"f", "a", "l", "s", "e">>,
              <<"n", "u", "l", "l">>}
  \/ IsNumberLexeme(str)
  \/ (Len(str) >= 2 /\ str[1] = "0" /\ str[2] \in Digit)
  \/ Includes(str, "[") \/ Includes(str, "{")
  \/ (Len(str) >= 1 /\ str[1] \in {"[", "]", "{", "}"})
  \/ str = <<"-">>
  \/ (Len(str) >= 2 /\ str[1] = "-" /\ str[2] \in WhiteSpace)
  \/ \E i \in 1..Len(str) : str[i] \in {LF, CR, TAB, BS, DQ}
  \/ \A i \in 1..Len(str) : str[i] \in WhiteSpace
  \/ ~ \A i \in 1..Len(str) :
         str[i] \in WordChar \cup WhiteSpace \cup NonAscii
                    \cup (IF delimiter = "," THEN {} ELSE {","})

needsQuoting(str, delimiter) ==
  \* Empty strings need quotes
  \/ Len(str) = 0
  \* Keywords need quotes
  \/ str \in {<<"t", "r", "u", "e">>, <<"f", "a", "l", "s", "e">>,
              <<"n", "u", "l", "l">>}
  \* Numbers need quotes (including scientific notation)
  \/ IsNumberLexeme(str)
  \* /^0\d/
  \/ (Len(str) >= 2 /\ str[1] = "0" /\ str[2] \in Digit)
  \* /^[[\]{}]/ or includes '[' or '{'
  \/ (Len(str) >= 1 /\ str[1] \in {"[", "]", "{", "}"})
  \/ Includes(str, "[") \/ Includes(str, "{")
  \* '-' or /^-\s/
  \/ str = <<"-">>
  \/ (Len(str) >= 2 /\ str[1] = "-" /\ str[2] \in WhiteSpace)
  \* /[\n\r\t\\"]/
  \/ \E i \in 1..Len(str) : str[i] \in {LF, CR, TAB, BS, DQ}
  \* /^\s+$/
  \/ \A i \in 1..Len(str) : str[i] \in WhiteSpace
  \* str !== str.trim()
  \/ str # Trim(str)
  \* the safe pattern; the comma is safe when it is not the delimiter
  \/ ~ \A i \in 1..Len(str) :
         str[i] \in WordChar \cup WhiteSpace \cup NonAscii
                    \cup (IF delimiter = "," THEN {} ELSE {","})

\* needsQuotingInArray for which a comma always needs quotes
needsQuotingInArray_commaAlways(str, delimiter) ==
  \/ needsQuoting(str, delimiter)
  \/ Includes(str, delimiter)
  \/ Includes(str, ",")
  \/ Includes(str, ":")

needsQuotingInArray(str, delimiter) ==
  \/ needsQuoting(str, delimiter)
  \/ Includes(str, delimiter)
  \/ Includes(str, ":")

needsQuotingAsKey(str) ==
  \/ Len(str) = 0
  \/ \A i \in 1..Len(str) : str[i] \in Digit
  \/ (Len(str) >= 1 /\ str[1] = "-")
  \/ Includes(str, "-")
  \/ \E i \in 1..Len(str) :
       str[i] \in {":", ",", SP, "[", "]", "{", "}", LF, TAB, CR, DQ}

\* the chain of replacements, backslash first
escapeString(str) ==
  ReplaceAll(ReplaceAll(ReplaceAll(ReplaceAll(ReplaceAll(str,
    <<BS>>, <<BS, BS>>), <<DQ>>, <<BS, DQ>>), <<LF>>, <<BS, "n">>),
    <<CR>>, <<BS, "r">>), <<TAB>>, <<BS, "t">>)

\* utils/string.ts: the chain of replacements, \n first and \\ last
unescapeString_replace(str) ==
  ReplaceAll(ReplaceAll(ReplaceAll(ReplaceAll(ReplaceAll(str,
    <<BS, "n">>, <<LF>>), <<BS, "r">>, <<CR>>), <<BS, "t">>, <<TAB>>),
    <<BS, DQ>>, <<DQ>>), <<BS, BS>>, <<BS>>)

\* the scanning unescapeString: the loop from position i with result so far
RECURSIVE unescapeLoop(_, _, _, _)
unescapeLoop(str, i, result, lineIndex) ==
  IF i > Len(str) THEN Ret(result)
  ELSE IF str[i] = BS /\ i + 1 <= Len(str) THEN
    LET next == str[i + 1] IN
    IF next = "n" THEN unescapeLoop(str, i + 2, Append(result, LF), lineIndex)
    ELSE IF next = "r" THEN unescapeLoop(str, i + 2, Append(result, CR), lineIndex)
    ELSE IF next = "t" THEN unescapeLoop(str, i + 2, Append(result, TAB), lineIndex)
    ELSE IF next = DQ THEN unescapeLoop(str, i + 2, Append(result, DQ), lineIndex)
    ELSE IF next = BS THEN unescapeLoop(str, i + 2, Append(result, BS), lineIndex)
    ELSE IF lineIndex # Undefined
      THEN Throw(PlainError("Invalid escape sequence"))
      ELSE unescapeLoop(str, i + 1, Append(result, str[i]), lineIndex)
  ELSE unescapeLoop(str, i + 1, Append(result, str[i]), lineIndex)

unescapeString(str, lineIndex) == unescapeLoop(str, 1, <<>>, lineIndex)

quoteString(str, inArray, delimiter) ==
  LET needs == IF inArray THEN needsQuotingInArray(str, delimiter)
                          ELSE needsQuoting(str, delimiter)
  IN IF needs THEN <<DQ>> \o escapeString(str) \o <<DQ>> ELSE str

quoteKey(key) ==
  IF needsQuotingAsKey(key) THEN <<DQ>> \o escapeString(key) \o <<DQ>> ELSE key

\* parseString(str, lineIndex): the string, or the Error of unescapeString
parseString(str, lineIndex) ==
  LET trimmed == Trim(str) IN
  IF StartsWith(trimmed, <<DQ>>) /\ EndsWith(trimmed, <<DQ>>)
    THEN unescapeString(SubSeq(trimmed, 2, Len(trimmed) - 1), lineIndex)
    ELSE Ret(trimmed)

(***************************************************************************)
(* 4.B Key parser                                                           *)
(***************************************************************************)
KeyChar == WordChar \cup {".", "-"}
KeyNull == [found |-> FALSE, key |-> <<>>, rest |-> <<>>, wasQuoted |-> FALSE]
KeyOf(key, rest, wasQuoted) ==
  [found |-> TRUE, key |-> key, rest |-> rest, wasQuoted |-> wasQuoted]

\* The parsers below call one another, directly and through their loops; every
\* call goes through call, which selects the body of the function called.
RECURSIVE call(_, _)
parseKey(str) == call("parseKey", <<str>>)
parsePrimitive(str, lineIndex) == call("parsePrimitive", <<str, lineIndex>>)
parseInlineArray(line, lineIndex) ==
  call("parseInlineArray", <<line, lineIndex>>)
parseTabular(header, lines, startIndex, options) ==
  call("parseTabular", <<header, lines, startIndex, options>>)
parseRootArray(header, lines, startIndex, options) ==
  call("parseRootArray", <<header, lines, startIndex, options>>)
parseListFormat(lines, startIndex, count, baseIndent, options) ==
  call("parseListFormat", <<lines, startIndex, count, baseIndent, options>>)
parseArray(header, lines, startIndex, options) ==
  call("parseArray", <<header, lines, startIndex, options>>)
parseLines(lines, startIndex, options) ==
  call("parseLines", <<lines, startIndex, options>>)
itemKeyValue(content, lines, lineIndex, options, obj, onMiss) ==
  call("itemKeyValue", <<content, lines, lineIndex, options, obj, onMiss>>)
itemField(content, lines, lineIndex, options, obj, onMiss) ==
  call("itemField", <<content, lines, lineIndex, options, obj, onMiss>>)
itemFields(lines, baseIndent, options, obj, lineIndex) ==
  call("itemFields", <<lines, baseIndent, options, obj, lineIndex>>)
decodeBody(lines, opts) == call("decodeBody", <<lines, opts>>)

\* the scan of a quoted key from position i
RECURSIVE parseKeyQuoted(_, _, _, _)
parseKeyQuoted(trimmed, i, escaped, key) ==
  IF i > Len(trimmed) THEN Ret(KeyNull)
  ELSE LET char == trimmed[i] IN
    IF escaped THEN parseKeyQuoted(trimmed, i + 1, FALSE, key \o <<BS, char>>)
    ELSE IF char = BS THEN parseKeyQuoted(trimmed, i + 1, TRUE, key)
    ELSE IF char = DQ THEN
      LET u == unescapeString(key, 0) IN
      IF Failed(u) THEN Throw(u.err)
      ELSE Ret(KeyOf(u.v, Drop(trimmed, i + 1), TRUE))
    ELSE parseKeyQuoted(trimmed, i + 1, FALSE, Append(key, char))

\* parseKeyBare that takes every character up to the first [ or : as the key
parseKeyBare_anyCharacter(trimmed) ==
  LET j == RunEndNot(trimmed, 1, {"[", ":"}) IN
  IF j = 1 THEN KeyNull
  ELSE KeyOf(Take(trimmed, j - 1), Drop(trimmed, j), FALSE)

\* trimmed.match(/^([\w.-]+?)(\[.*|:\s*.*|$)/)
parseKeyBare(trimmed) ==
  LET j == RunEnd(trimmed, 1, KeyChar) IN
  IF j = 1 THEN KeyNull
  ELSE IF j > Len(trimmed) THEN KeyOf(Take(trimmed, j - 1), <<>>, FALSE)
  ELSE IF trimmed[j] = "[" THEN
    KeyOf(Take(trimmed, j - 1),
          SubSeq(trimmed, j, RunEndNot(trimmed, j + 1, LineTerminator) - 1), FALSE)
  ELSE IF trimmed[j] = ":" THEN
    KeyOf(Take(trimmed, j - 1),
          SubSeq(trimmed, j,
                 RunEndNot(trimmed, RunEnd(trimmed, j + 1, WhiteSpace),
                           LineTerminator) - 1), FALSE)
  ELSE KeyNull

parseKeyBody(str) ==
  LET trimmed == Trim(str) IN
  IF StartsWith(trimmed, <<DQ>>)
    THEN parseKeyQuoted(trimmed, 2, FALSE, <<>>)
    ELSE Ret(parseKeyBare(trimmed))

(***************************************************************************)
(* 4.C Primitive codec and delimiter-aware splitting (core/decoder.ts)      *)
(***************************************************************************)
RECURSIVE DigitsToInt(_)
DigitsToInt(ds) ==
  IF Len(ds) = 0 THEN 0
  ELSE 10 * DigitsToInt(SubSeq(ds, 1, Len(ds) - 1)) + DigitVal(ds[Len(ds)])

\* strip the trailing zeros of a mantissa into the exponent
RECURSIVE Normalize(_, _, _)
Normalize(neg, m, e) ==
  IF m = 0 THEN VNum(neg, 0, 0)
  ELSE IF m % 10 = 0 THEN Normalize(neg, m \div 10, e + 1)
  ELSE VNum(neg, m, e)

\* Number(s) for a lexeme that matches the number pattern
NumberOf(s) ==
  LET neg == IF s[1] = "-" THEN 1 ELSE 0
      i0 == neg + 1
      i1 == RunEnd(s, i0, Digit)
      hasFrac == i1 <= Len(s) /\ s[i1] = "."
      i2 == IF hasFrac THEN RunEnd(s, i1 + 1, Digit) ELSE i1
      frac == IF hasFrac THEN SubSeq(s, i1 + 1, i2 - 1) ELSE <<>>
      hasExp == i2 <= Len(s)
      eneg == hasExp /\ s[i2 + 1] = "-"
      j == IF hasExp /\ s[i2 + 1] \in {"+", "-"} THEN i2 + 2 ELSE i2 + 1
      ex == IF hasExp THEN DigitsToInt(Drop(s, j)) ELSE 0
  IN Normalize(neg, DigitsToInt(SubSeq(s, i0, i1 - 1) \o frac),
               (IF eneg THEN 0 - ex ELSE ex) - Len(frac))

\* parsePrimitive without the leading-zero test
parsePrimitive_leadingZeroAsNumber(str, lineIndex) ==
  LET trimmed == Trim(str) IN
  IF StartsWith(trimmed, <<DQ>>) THEN
    IF ~EndsWith(trimmed, <<DQ>>) \/ Len(trimmed) < 2
      THEN Throw(ToonDecodeError("Unterminated string", lineIndex + 1, <<>>))
      ELSE LET r == parseString(trimmed, lineIndex) IN
           IF Failed(r) THEN r ELSE Ret(VStr(r.v))
  ELSE IF trimmed = <<"t", "r", "u", "e">> THEN Ret(VBool(TRUE))
  ELSE IF trimmed = <<"f", "a", "l", "s", "e">> THEN Ret(VBool(FALSE))
  ELSE IF trimmed = <<"n", "u", "l", "l">> THEN Ret(VNull)
  ELSE IF IsNumberLexeme(trimmed) THEN
    LET num == NumberOf(trimmed) IN
    Ret(IF num.n[2] = 0 THEN VNum(0, 0, 0) ELSE num)
  ELSE Ret(VStr(trimmed))

parsePrimitiveBody(str, lineIndex) ==
  LET trimmed == Trim(str) IN
  \* Section: Handle quoted strings
  IF StartsWith(trimmed, <<DQ>>) THEN
    IF ~EndsWith(trimmed, <<DQ>>) \/ Len(trimmed) < 2
      THEN Throw(ToonDecodeError("Unterminated string", lineIndex + 1, <<>>))
      ELSE LET r == parseString(trimmed, lineIndex) IN
           IF Failed(r) THEN r ELSE Ret(VStr(r.v))
  \* Section: Handle keywords
  ELSE IF trimmed = <<"t", "r", "u", "e">> THEN Ret(VBool(TRUE))
  ELSE IF trimmed = <<"f", "a", "l", "s", "e">> THEN Ret(VBool(FALSE))
  ELSE IF trimmed = <<"n", "u", "l", "l">> THEN Ret(VNull)
  \* Section: Handle numbers
  ELSE IF IsNumberLexeme(trimmed) THEN
    \* /^-?0\d/: leading zero, treat as string
    IF LET z == IF trimmed[1] = "-" THEN 2 ELSE 1
       IN z + 1 <= Len(trimmed) /\ trimmed[z] = "0" /\ trimmed[z + 1] \in Digit
      THEN Ret(VStr(trimmed))
      ELSE LET num == NumberOf(trimmed) IN
           \* Object.is(num, -0) ? 0 : num
           Ret(IF num.n[2] = 0 THEN VNum(0, 0, 0) ELSE num)
  \* Section: Unquoted string
  ELSE Ret(VStr(trimmed))

\* line.match(/^(\s*)/)[1].length
getIndentLevel(line) == RunEnd(line, 1, WhiteSpace) - 1

detectDelimiter(bracketContent) ==
  IF Includes(bracketContent, TAB) THEN TAB
  ELSE IF Includes(bracketContent, "|") THEN "|"
  ELSE ","

\* the loop of splitByDelimiter from position i
RECURSIVE splitLoop(_, _, _, _, _, _, _)
splitLoop(str, delimiter, i, values, current, inQuotes, escaped) ==
  IF i > Len(str) THEN Append(values, Trim(current))
  ELSE LET char == str[i] IN
    IF escaped
      THEN splitLoop(str, delimiter, i + 1, values, Append(current, char),
                     inQuotes, FALSE)
    ELSE IF char = BS
      THEN splitLoop(str, delimiter, i + 1, values, Append(current, char),
                     inQuotes, TRUE)
    ELSE IF char = DQ
      THEN splitLoop(str, delimiter, i + 1, values, Append(current, char),
                     ~inQuotes, FALSE)
    ELSE IF char = delimiter /\ ~inQuotes
      THEN splitLoop(str, delimiter, i + 1, Append(values, Trim(current)),
                     <<>>, inQuotes, FALSE)
    ELSE splitLoop(str, delimiter, i + 1, values, Append(current, char),
                   inQuotes, FALSE)

splitByDelimiter_ignoreQuotes(str, delimiter) ==
  LET parts == SplitOn(str, delimiter, 1, <<>>)
  IN [i \in 1..Len(parts) |-> Trim(parts[i])]

splitByDelimiter(str, delimiter) ==
  splitLoop(str, delimiter, 1, <<>>, <<>>, FALSE, FALSE)

\* parseInt(str, 10): NaN, or the integer its longest numeric prefix denotes
NaN == [nan |-> TRUE, n |-> 0]
parseInt(str) ==
  LET b == RunEnd(str, 1, WhiteSpace)
      signed == b <= Len(str) /\ str[b] \in {"+", "-"}
      d0 == IF signed THEN b + 1 ELSE b
      d1 == RunEnd(str, d0, Digit)
      mag == DigitsToInt(SubSeq(str, d0, d1 - 1))
  IN IF d1 = d0 THEN NaN
     ELSE [nan |-> FALSE, n |-> IF signed /\ str[b] = "-" THEN 0 - mag ELSE mag]

\* bracketContent.replace(/[\t|]/g, '')
countStrOf(bracketContent) ==
  SelectSeq(bracketContent, LAMBDA c : c \notin {TAB, "|"})
countOf(bracketContent) == parseInt(countStrOf(bracketContent))

(***************************************************************************)
(* Objects with JavaScript property order, and parse results                *)
(***************************************************************************)
\* a canonical array index: such keys enumerate first, in ascending order
IsArrayIndex(key) ==
  /\ Len(key) >= 1
  /\ \A i \in 1..Len(key) : key[i] \in Digit
  /\ (Len(key) = 1 \/ key[1] # "0")

IndexLess(x, y) ==
  Len(x) < Len(y) \/ (Len(x) = Len(y) /\ DigitsToInt(x) < DigitsToInt(y))

KeyPos(o, key) ==
  IF \E i \in 1..Len(o.k) : o.k[i] = key
    THEN CHOOSE i \in 1..Len(o.k) : o.k[i] = key
    ELSE 0

InsertAt(seq, i, x) == SubSeq(seq, 1, i - 1) \o <<x>> \o SubSeq(seq, i, Len(seq))

\* obj[key] = val
ObjSet(o, key, val) ==
  LET p == KeyPos(o, key) IN
  IF p > 0 THEN VObj(o.k, [o.a EXCEPT ![p] = val])
  ELSE IF IsArrayIndex(key) THEN
    LET pos == Cardinality({i \in 1..Len(o.k) :
                 IsArrayIndex(o.k[i]) /\ IndexLess(o.k[i], key)}) + 1
    IN VObj(InsertAt(o.k, pos, key), InsertAt(o.a, pos, val))
  ELSE VObj(Append(o.k, key), Append(o.a, val))

\* obj[key] !== undefined
ObjHas(o, key) == KeyPos(o, key) > 0
\* obj[key]
ObjGet(o, key) == o.a[KeyPos(o, key)]

\* ParseResult; keyMetadata is kept as the set of keys mapped to true
PR(value, linesConsumed, quoted) ==
  [err |-> NoErr, value |-> value, linesConsumed |-> linesConsumed,
   keyMetadata |-> quoted]
PThrow(e) ==
  [err |-> e, value |-> VNull, linesConsumed |-> 0, keyMetadata |-> {}]

\* keyMetadata.set(key, wasQuoted)
MetaSet(quoted, key, wasQuoted) ==
  IF wasQuoted THEN quoted \cup {key} ELSE quoted \ {key}

\* lines[lineIndex] with the 0-based index of the source
LineAt(lines, lineIndex) == lines[lineIndex + 1]
IsBlank(line) == Trim(line) = <<>>

\* the thrown count: <<1, 0>> for NaN, <<0, n>> otherwise
CountArgs(count) == <<IF count.nan THEN 1 ELSE 0, count.n>>

(***************************************************************************)
(* The anchored header patterns                                             *)
(***************************************************************************)
\* end of a match of "([^"\\]|\\.)*" begun at the quote before position i
RECURSIVE QuotedEnd(_, _)
QuotedEnd(s, i) ==
  IF i > Len(s) THEN 0
  ELSE IF s[i] = DQ THEN i + 1
  ELSE IF s[i] = BS THEN
    IF i + 1 <= Len(s) /\ s[i + 1] \notin LineTerminator
      THEN QuotedEnd(s, i + 2) ELSE 0
  ELSE QuotedEnd(s, i + 1)

\* first position after a match of ^("([^"\\]|\\.)*"|CLS+), or 0
KeyPrefixEnd(s, cls) ==
  IF Len(s) >= 1 /\ s[1] = DQ THEN QuotedEnd(s, 2)
  ELSE LET j == RunEnd(s, 1, cls) IN IF j > 1 THEN j ELSE 0

\* position of the ']' closing a match of \[[^\]]+\] that starts at j, or 0
BracketClose(s, j) ==
  IF j >= 1 /\ j <= Len(s) /\ s[j] = "[" THEN
    LET k == RunEndNot(s, j + 1, {"]"})
    IN IF k > j + 1 /\ k <= Len(s) THEN k ELSE 0
  ELSE 0

\* position of the '}' closing a match of \{[^}]+\} that starts at j, or 0
BraceClose(s, j) ==
  IF j >= 1 /\ j <= Len(s) /\ s[j] = "{" THEN
    LET k == RunEndNot(s, j + 1, {"}"})
    IN IF k > j + 1 /\ k <= Len(s) THEN k ELSE 0
  ELSE 0

CharIs(s, i, c) == i >= 1 /\ i <= Len(s) /\ s[i] = c
\* \s*$ from position i
BlankFrom(s, i) == RunEnd(s, i, WhiteSpace) > Len(s)

\* \[[^\]]+\]:\s*\S+ from position j
InlineFrom(s, j) ==
  LET k == BracketClose(s, j) IN
  j > 0 /\ k > 0 /\ CharIs(s, k + 1, ":") /\ ~BlankFrom(s, k + 2)

\* \[[^\]]+\]\{[^}]+\}:\s*$ from position j
TabularFrom(s, j) ==
  LET k == BracketClose(s, j)
      m == BraceClose(s, k + 1)
  IN j > 0 /\ k > 0 /\ m > 0 /\ CharIs(s, m + 1, ":") /\ BlankFrom(s, m + 2)

\* \[[^\]]+\]:\s*$ from position j
MultilineFrom(s, j) ==
  LET k == BracketClose(s, j) IN
  j > 0 /\ k > 0 /\ CharIs(s, k + 1, ":") /\ BlankFrom(s, k + 2)

NoMatch == [ok |-> FALSE, bracket |-> <<>>, keys |-> <<>>, tail |-> <<>>]

\* rest.match(/^\[([^\]]+)\]:\s*(.*)$/)
InlineMatch(rest) ==
  LET k == BracketClose(rest, 1)
      p == RunEnd(rest, k + 2, WhiteSpace)
  IN IF k > 0 /\ CharIs(rest, k + 1, ":")
          /\ \A i \in p..Len(rest) : rest[i] \notin LineTerminator
       THEN [ok |-> TRUE, bracket |-> SubSeq(rest, 2, k - 1), keys |-> <<>>,
             tail |-> Drop(rest, p)]
       ELSE NoMatch

\* header.match(/^\[([^\]]+)\]:\s*(.+)$/): \s* gives back its last character
\* when nothing else is left for .+
RootInlineMatch(header) ==
  LET k == BracketClose(header, 1)
      q == RunEnd(header, k + 2, WhiteSpace)
      p == IF q > Len(header) /\ q > k + 2 THEN q - 1 ELSE q
  IN IF k > 0 /\ CharIs(header, k + 1, ":") /\ p <= Len(header)
          /\ \A i \in p..Len(header) : header[i] \notin LineTerminator
       THEN [ok |-> TRUE, bracket |-> SubSeq(header, 2, k - 1), keys |-> <<>>,
             tail |-> Drop(header, p)]
       ELSE NoMatch

\* rest.match(/^\[([^\]]+)\]\{([^}]+)\}:\s*$/)
TabularMatch(rest) ==
  LET k == BracketClose(rest, 1)
      m == BraceClose(rest, k + 1)
  IN IF TabularFrom(rest, 1)
       THEN [ok |-> TRUE, bracket |-> SubSeq(rest, 2, k - 1),
             keys |-> SubSeq(rest, k + 2, m - 1), tail |-> <<>>]
       ELSE NoMatch

\* rest.match(/^\[([^\]]+)\]:\s*$/)
ArrayMatch(rest) ==
  LET k == BracketClose(rest, 1) IN
  IF MultilineFrom(rest, 1)
    THEN [ok |-> TRUE, bracket |-> SubSeq(rest, 2, k - 1), keys |-> <<>>,
          tail |-> <<>>]
    ELSE NoMatch

\* rest.match(/^:\s*(.*)$/)
ColonMatch(rest) ==
  LET p == RunEnd(rest, 2, WhiteSpace) IN
  IF CharIs(rest, 1, ":") /\ \A i \in p..Len(rest) : rest[i] \notin LineTerminator
    THEN [ok |-> TRUE, bracket |-> <<>>, keys |-> <<>>, tail |-> Drop(rest, p)]
    ELSE NoMatch

(***************************************************************************)
(* 4.E Decoder: inline and tabular arrays                                   *)
(***************************************************************************)
\* values.map((v) => parsePrimitive(v, lineIndex))
RECURSIVE parseAll(_, _)
parseAll(values, lineIndex) ==
  IF Len(values) = 0 THEN Ret(<<>>)
  ELSE LET h == parsePrimitive(values[1], lineIndex) IN
    IF Failed(h) THEN h
    ELSE LET t == parseAll(Tail(values), lineIndex) IN
      IF Failed(t) THEN t ELSE Ret(<<h.v>> \o t.v)

\* the three comparisons made with a count that may be NaN
CountIsZero(count) == ~count.nan /\ count.n = 0
CountDiffers(len, count) == count.nan \/ len # count.n
BelowCount(len, count) == ~count.nan /\ len < count.n

parseInlineArrayBody(line, lineIndex) ==
  LET keyResult == parseKey(line) IN
  IF Failed(keyResult) THEN Throw(keyResult.err)
  ELSE IF ~keyResult.v.found
    THEN Throw(ToonDecodeError("Invalid array key", lineIndex, <<>>))
  ELSE LET m == InlineMatch(keyResult.v.rest) IN
    IF ~m.ok
      THEN Throw(ToonDecodeError("Invalid inline array format", lineIndex, <<>>))
    ELSE LET delimiter == detectDelimiter(m.bracket)
             count == countOf(m.bracket)
             values == splitByDelimiter(m.tail, delimiter)
             parsed == parseAll(values, lineIndex)
         IN
      \* Handle empty array
      IF CountIsZero(count) THEN Ret([key |-> keyResult.v.key, values |-> <<>>])
      ELSE IF CountDiffers(Len(values), count)
        THEN Throw(ToonDecodeError("Array count mismatch", lineIndex,
                                   CountArgs(count) \o <<Len(values)>>))
      ELSE IF Failed(parsed) THEN parsed
      ELSE Ret([key |-> keyResult.v.key, values |-> parsed.v])

\* parseRow: the line trimmed, then split
parseRow(line, delimiter) == splitByDelimiter(Trim(line), delimiter)

\* splitByDelimiter(keysStr, delimiter).map((k) => parseString(k)): no line
\* index is passed, so unescapeString never throws here
headerKeys(keysStr, delimiter) ==
  LET ks == splitByDelimiter(keysStr, delimiter)
  IN [i \in 1..Len(ks) |-> parseString(ks[i], Undefined).v]

\* for (j...) obj[keys[j]] = parsePrimitive(values[j], lineIndex)
RECURSIVE buildRow(_, _, _, _, _)
buildRow(keys, values, lineIndex, j, obj) ==
  IF j > Len(keys) THEN Ret(obj)
  ELSE LET pv == parsePrimitive(values[j], lineIndex) IN
    IF Failed(pv) THEN pv
    ELSE buildRow(keys, values, lineIndex, j + 1, ObjSet(obj, keys[j], pv.v))

\* the row loop of parseTabular and its final count validation
RECURSIVE tabularLoop(_, _, _, _, _, _, _, _, _)
tabularLoop(lines, startIndex, options, count, keys, delimiter, i, lineIndex, result) ==
  IF ~BelowCount(i, count) THEN
    IF CountDiffers(Len(result), count)
      THEN PThrow(ToonDecodeError("Tabular array length mismatch", startIndex,
                                  CountArgs(count) \o <<Len(result)>>))
      ELSE PR(VArr(result), lineIndex - startIndex, {})
  ELSE IF lineIndex < Len(lines) /\ IsBlank(LineAt(lines, lineIndex)) THEN
    \* Skip blank lines
    IF options.strict /\ i > 0 /\ BelowCount(i, count)
      THEN PThrow(ToonDecodeError(
             "Blank lines not allowed inside arrays in strict mode",
             lineIndex + 1, <<>>))
      ELSE tabularLoop(lines, startIndex, options, count, keys, delimiter, i,
                       lineIndex + 1, result)
  ELSE IF lineIndex >= Len(lines)
    THEN PThrow(ToonDecodeError("Expected rows", lineIndex,
                                CountArgs(count) \o <<i>>))
  ELSE LET values == parseRow(LineAt(lines, lineIndex), delimiter) IN
    IF Len(values) # Len(keys)
      THEN PThrow(ToonDecodeError("Row has wrong number of values", lineIndex,
                                  <<Len(values), Len(keys)>>))
    ELSE LET row == buildRow(keys, values, lineIndex, 1, EmptyObj) IN
      IF Failed(row) THEN PThrow(row.err)
      ELSE tabularLoop(lines, startIndex, options, count, keys, delimiter,
                       i + 1, lineIndex + 1, Append(result, row.v))

parseTabularBody(header, lines, startIndex, options) ==
  LET keyResult == parseKey(header) IN
  IF Failed(keyResult) THEN PThrow(keyResult.err)
  ELSE IF ~keyResult.v.found
    THEN PThrow(ToonDecodeError("Invalid tabular array key", startIndex, <<>>))
  ELSE LET m == TabularMatch(keyResult.v.rest) IN
    IF ~m.ok
      THEN PThrow(ToonDecodeError("Invalid tabular array header", startIndex, <<>>))
    ELSE LET delimiter == detectDelimiter(m.bracket) IN
      tabularLoop(lines, startIndex, options, countOf(m.bracket),
                  headerKeys(m.keys, delimiter), delimiter, 0, startIndex + 1, <<>>)

(***************************************************************************)
(* 4.E Decoder: root arrays, list items, arrays and objects                 *)
(***************************************************************************)
IsListMarker(content) == StartsWith(content, <<"-", SP>>) \/ content = <<"-">>

\* the row loop of the tabular root array and its check for extra rows
RECURSIVE rootTabularLoop(_, _, _, _, _, _, _, _)
rootTabularLoop(lines, startIndex, count, keys, delimiter, i, lineIndex, result) ==
  IF ~BelowCount(i, count) THEN
    \* Section: Validate no extra rows
    IF lineIndex < Len(lines)
         /\ ~IsBlank(LineAt(lines, lineIndex))
         /\ getIndentLevel(LineAt(lines, lineIndex)) > 0
      THEN PThrow(ToonDecodeError("Tabular array has more rows than declared count",
                                  lineIndex, CountArgs(count)))
      ELSE PR(VArr(result), lineIndex - startIndex, {})
  ELSE IF lineIndex >= Len(lines)
    THEN PThrow(ToonDecodeError("Expected rows", lineIndex,
                                CountArgs(count) \o <<i>>))
  ELSE LET values == parseRow(LineAt(lines, lineIndex), delimiter) IN
    IF Len(values) # Len(keys)
      THEN PThrow(ToonDecodeError("Row has wrong number of values", lineIndex,
                                  <<Len(values), Len(keys)>>))
    ELSE LET row == buildRow(keys, values, lineIndex, 1, EmptyObj) IN
      IF Failed(row) THEN PThrow(row.err)
      ELSE rootTabularLoop(lines, startIndex, count, keys, delimiter,
                           i + 1, lineIndex + 1, Append(result, row.v))

\* the one-primitive-per-line loop of parseRootArray
RECURSIVE rootPrimitiveLoop(_, _, _, _, _, _, _)
rootPrimitiveLoop(lines, startIndex, options, count, baseIndent, lineIndex, result) ==
  IF ~(BelowCount(Len(result), count) /\ lineIndex < Len(lines))
    THEN PR(VArr(result), lineIndex - startIndex, {})
  ELSE LET line == LineAt(lines, lineIndex) IN
    IF IsBlank(line) THEN
      IF options.strict /\ Len(result) > 0 /\ BelowCount(Len(result), count)
        THEN PThrow(ToonDecodeError(
               "Blank lines not allowed inside arrays in strict mode",
               lineIndex + 1, <<>>))
        ELSE rootPrimitiveLoop(lines, startIndex, options, count, baseIndent,
                               lineIndex + 1, result)
    ELSE IF getIndentLevel(line) < baseIndent
      THEN PR(VArr(result), lineIndex - startIndex, {})
    ELSE LET value == parsePrimitive(line, lineIndex) IN
      IF Failed(value) THEN PThrow(value.err)
      ELSE rootPrimitiveLoop(lines, startIndex, options, count, baseIndent,
                             lineIndex + 1, Append(result, value.v))

\* parseRootArray, were its inline form to report no consumed line
parseRootArray_inlineConsumesNoLine(header, lines, startIndex, options) ==
  LET inlineMatch == RootInlineMatch(header)
      tabularMatch == TabularMatch(header)
      arrayMatch == ArrayMatch(header)
  IN
  \* Section: Handle inline root array [count<delim>]: val,val,val
  IF inlineMatch.ok THEN
    LET delimiter == detectDelimiter(inlineMatch.bracket)
        count == countOf(inlineMatch.bracket)
        values == splitByDelimiter(inlineMatch.tail, delimiter)
        parsed == parseAll(values, startIndex)
    IN IF CountIsZero(count) THEN PR(VArr(<<>>), 1, {})
       ELSE IF CountDiffers(Len(values), count)
         THEN PThrow(ToonDecodeError("Array count mismatch", startIndex,
                                     CountArgs(count) \o <<Len(values)>>))
       ELSE IF Failed(parsed) THEN PThrow(parsed.err)
       ELSE PR(VArr(parsed.v), 0, {})
  \* Section: Handle tabular root array [count<delim>]{fields}:
  ELSE IF tabularMatch.ok THEN
    LET delimiter == detectDelimiter(tabularMatch.bracket) IN
    rootTabularLoop(lines, startIndex, countOf(tabularMatch.bracket),
                    headerKeys(tabularMatch.keys, delimiter), delimiter,
                    0, startIndex + 1, <<>>)
  \* Section: Handle multiline root array [count<delim>]:
  ELSE IF arrayMatch.ok THEN
    LET count == countOf(arrayMatch.bracket)
        nextLineIndex == startIndex + 1
    IN IF CountIsZero(count) THEN PR(VArr(<<>>), 1, {})
       \* Check if list format
       ELSE IF nextLineIndex < Len(lines)
                 /\ IsListMarker(Trim(LineAt(lines, nextLineIndex)))
         THEN parseListFormat(lines, nextLineIndex, count,
                              getIndentLevel(LineAt(lines, nextLineIndex)), options)
       \* Regular primitive array: lines[lineIndex] may be undefined
       ELSE IF nextLineIndex >= Len(lines)
         THEN PThrow(TypeError("Cannot read properties of undefined"))
       ELSE rootPrimitiveLoop(lines, startIndex, options, count,
                              getIndentLevel(LineAt(lines, nextLineIndex)),
                              nextLineIndex, <<>>)
  ELSE PThrow(ToonDecodeError("Invalid root array format", startIndex, <<>>))

parseRootArrayBody(header, lines, startIndex, options) ==
  LET inlineMatch == RootInlineMatch(header)
      tabularMatch == TabularMatch(header)
      arrayMatch == ArrayMatch(header)
  IN
  \* Section: Handle inline root array [count<delim>]: val,val,val
  IF inlineMatch.ok THEN
    LET delimiter == detectDelimiter(inlineMatch.bracket)
        count == countOf(inlineMatch.bracket)
        values == splitByDelimiter(inlineMatch.tail, delimiter)
        parsed == parseAll(values, startIndex)
    IN IF CountIsZero(count) THEN PR(VArr(<<>>), 1, {})
       ELSE IF CountDiffers(Len(values), count)
         THEN PThrow(ToonDecodeError("Array count mismatch", startIndex,
                                     CountArgs(count) \o <<Len(values)>>))
       ELSE IF Failed(parsed) THEN PThrow(parsed.err)
       ELSE PR(VArr(parsed.v), 1, {})
  \* Section: Handle tabular root array [count<delim>]{fields}:
  ELSE IF tabularMatch.ok THEN
    LET delimiter == detectDelimiter(tabularMatch.bracket) IN
    rootTabularLoop(lines, startIndex, countOf(tabularMatch.bracket),
                    headerKeys(tabularMatch.keys, delimiter), delimiter,
                    0, startIndex + 1, <<>>)
  \* Section: Handle multiline root array [count<delim>]:
  ELSE IF arrayMatch.ok THEN
    LET count == countOf(arrayMatch.bracket)
        nextLineIndex == startIndex + 1
    IN IF CountIsZero(count) THEN PR(VArr(<<>>), 1, {})
       \* Check if list format
       ELSE IF nextLineIndex < Len(lines)
                 /\ IsListMarker(Trim(LineAt(lines, nextLineIndex)))
         THEN parseListFormat(lines, nextLineIndex, count,
                              getIndentLevel(LineAt(lines, nextLineIndex)), options)
       \* Regular primitive array: lines[lineIndex] may be undefined
       ELSE IF nextLineIndex >= Len(lines)
         THEN PThrow(TypeError("Cannot read properties of undefined"))
       ELSE rootPrimitiveLoop(lines, startIndex, options, count,
                              getIndentLevel(LineAt(lines, nextLineIndex)),
                              nextLineIndex, <<>>)
  ELSE PThrow(ToonDecodeError("Invalid root array format", startIndex, <<>>))

\* what a field of a list item leaves behind: the object, the cursor, and
\* whether the field loop was left by break
Field(obj, lineIndex, stop) ==
  [err |-> NoErr, obj |-> obj, lineIndex |-> lineIndex, stop |-> stop]
FieldThrow(e) == [err |-> e, obj |-> EmptyObj, lineIndex |-> 0, stop |-> TRUE]

\* key: value on a list item, first or additional; onMiss is what the source
\* does when parseKey or the colon match fails (advance, or break)
itemKeyValueBody(content, lines, lineIndex, options, obj, onMiss) ==
  LET keyResult == parseKey(content) IN
  IF Failed(keyResult) THEN FieldThrow(keyResult.err)
  ELSE IF ~keyResult.v.found THEN onMiss
  ELSE LET colonMatch == ColonMatch(keyResult.v.rest) IN
    IF ~colonMatch.ok THEN onMiss
    ELSE LET valueStr == Trim(colonMatch.tail) IN
      IF valueStr = <<>> THEN
        \* nested value: the null of an empty block is stored as it is
        LET nestedStart == lineIndex + 1
            nested == parseLines(lines, nestedStart, options)
        IN IF Failed(nested) THEN FieldThrow(nested.err)
           ELSE Field(ObjSet(obj, keyResult.v.key, nested.value),
                      nestedStart + nested.linesConsumed, FALSE)
      ELSE LET pv == parsePrimitive(valueStr, lineIndex) IN
        IF Failed(pv) THEN FieldThrow(pv.err)
        ELSE Field(ObjSet(obj, keyResult.v.key, pv.v), lineIndex + 1, FALSE)

\* one field of a list item, classified by the three array shapes with a
\* \w+ bare key and then as key: value
itemFieldBody(content, lines, lineIndex, options, obj, onMiss) ==
  LET j == KeyPrefixEnd(content, WordChar) IN
  \* Section: inline array
  IF InlineFrom(content, j) THEN
    LET parsed == parseInlineArray(content, lineIndex) IN
    IF Failed(parsed) THEN FieldThrow(parsed.err)
    ELSE Field(ObjSet(obj, parsed.v.key, VArr(parsed.v.values)), lineIndex + 1, FALSE)
  \* Section: tabular array
  ELSE IF TabularFrom(content, j) THEN
    LET keyResult == parseKey(content) IN
    IF Failed(keyResult) THEN FieldThrow(keyResult.err)
    ELSE IF ~keyResult.v.found THEN onMiss
    ELSE LET parsed == parseTabular(content, lines, lineIndex, options) IN
      IF Failed(parsed) THEN FieldThrow(parsed.err)
      ELSE Field(ObjSet(obj, keyResult.v.key, parsed.value),
                 lineIndex + parsed.linesConsumed, FALSE)
  \* Section: multiline array
  ELSE IF MultilineFrom(content, j) THEN
    LET keyResult == parseKey(content) IN
    IF Failed(keyResult) THEN FieldThrow(keyResult.err)
    ELSE IF ~keyResult.v.found THEN onMiss
    ELSE LET parsed == parseArray(content, lines, lineIndex, options) IN
      IF Failed(parsed) THEN FieldThrow(parsed.err)
      ELSE Field(ObjSet(obj, keyResult.v.key, parsed.value),
                 lineIndex + parsed.linesConsumed, FALSE)
  \* Section: Regular key-value field
  ELSE itemKeyValue(content, lines, lineIndex, options, obj, onMiss)

\* Parse additional fields at deeper indent
itemFieldsBody(lines, baseIndent, options, obj, lineIndex) ==
  IF lineIndex >= Len(lines) THEN Field(obj, lineIndex, TRUE)
  ELSE LET nextLine == LineAt(lines, lineIndex) IN
    IF IsBlank(nextLine)
      THEN itemFields(lines, baseIndent, options, obj, lineIndex + 1)
    ELSE IF getIndentLevel(nextLine) <= baseIndent THEN Field(obj, lineIndex, TRUE)
    ELSE LET f == itemField(Trim(nextLine), lines, lineIndex, options, obj,
                            Field(obj, lineIndex, TRUE)) IN
      IF Failed(f) \/ f.stop THEN f
      ELSE itemFields(lines, baseIndent, options, f.obj, f.lineIndex)

\* the item loop of parseListFormat and its final count validation
RECURSIVE listLoop(_, _, _, _, _, _, _)
listLoop(lines, startIndex, count, baseIndent, options, lineIndex, result) ==
  IF ~(BelowCount(Len(result), count) /\ lineIndex < Len(lines)) THEN
    \* Section: Validate final count
    IF CountDiffers(Len(result), count)
      THEN PThrow(ToonDecodeError("Array length mismatch", startIndex,
                                  CountArgs(count) \o <<Len(result)>>))
      ELSE PR(VArr(result), lineIndex - startIndex, {})
  ELSE LET line == LineAt(lines, lineIndex)
           indent == getIndentLevel(line)
           content == Trim(line)
           itemContent == Trim(Drop(content, 3))
       IN
    \* Check for blank lines
    IF IsBlank(line) THEN
      IF options.strict /\ Len(result) > 0 /\ BelowCount(Len(result), count)
        THEN PThrow(ToonDecodeError(
               "Blank lines not allowed inside arrays in strict mode",
               lineIndex + 1, <<>>))
        ELSE listLoop(lines, startIndex, count, baseIndent, options,
                      lineIndex + 1, result)
    \* Check for list item marker
    ELSE IF indent = baseIndent /\ StartsWith(content, <<"-", SP>>) THEN
      \* Section: Handle empty list item
      IF itemContent = <<>>
        THEN listLoop(lines, startIndex, count, baseIndent, options,
                      lineIndex + 1, Append(result, EmptyObj))
      \* Section: Handle inline array as list item: /^\[[^\]]+\]:/
      ELSE IF BracketClose(itemContent, 1) > 0
                /\ CharIs(itemContent, BracketClose(itemContent, 1) + 1, ":") THEN
        LET parsed == parseRootArray(itemContent, lines, lineIndex, options) IN
        IF Failed(parsed) THEN parsed
        ELSE listLoop(lines, startIndex, count, baseIndent, options,
                      lineIndex + parsed.linesConsumed, Append(result, parsed.value))
      \* Section: Handle object with first field on hyphen line
      ELSE IF Includes(itemContent, ":") THEN
        LET first == itemField(itemContent, lines, lineIndex, options, EmptyObj,
                               Field(EmptyObj, lineIndex + 1, FALSE))
            more == itemFields(lines, baseIndent, options, first.obj, first.lineIndex)
        IN IF Failed(first) THEN PThrow(first.err)
           ELSE IF Failed(more) THEN PThrow(more.err)
           ELSE listLoop(lines, startIndex, count, baseIndent, options,
                         more.lineIndex, Append(result, more.obj))
      \* Section: Handle primitive value
      ELSE LET pv == parsePrimitive(itemContent, lineIndex) IN
        IF Failed(pv) THEN PThrow(pv.err)
        ELSE listLoop(lines, startIndex, count, baseIndent, options,
                      lineIndex + 1, Append(result, pv.v))
    \* Handle hyphen alone on line
    ELSE IF indent = baseIndent /\ content = <<"-">>
      THEN listLoop(lines, startIndex, count, baseIndent, options,
                    lineIndex + 1, Append(result, EmptyObj))
    \* Unexpected content
    ELSE listLoop(lines, startIndex, count, baseIndent, options,
                  lineIndex + 1, result)

parseListFormatBody(lines, startIndex, count, baseIndent, options) ==
  listLoop(lines, startIndex, count, baseIndent, options, startIndex, <<>>)

\* the one-primitive-per-line loop of parseArray: no count validation follows
RECURSIVE arrayPrimitiveLoop(_, _, _, _, _, _, _)
arrayPrimitiveLoop(lines, startIndex, options, count, baseIndent, lineIndex, result) ==
  IF ~(BelowCount(Len(result), count) /\ lineIndex < Len(lines))
    THEN PR(VArr(result), lineIndex - startIndex, {})
  ELSE LET line == LineAt(lines, lineIndex) IN
    IF IsBlank(line) THEN
      IF options.strict /\ Len(result) > 0 /\ BelowCount(Len(result), count)
        THEN PThrow(ToonDecodeError(
               "Blank lines not allowed inside arrays in strict mode",
               lineIndex + 1, <<>>))
        ELSE arrayPrimitiveLoop(lines, startIndex, options, count, baseIndent,
                                lineIndex + 1, result)
    ELSE IF getIndentLevel(line) < baseIndent
      THEN PR(VArr(result), lineIndex - startIndex, {})
    ELSE LET value == parsePrimitive(line, lineIndex) IN
      IF Failed(value) THEN PThrow(value.err)
      ELSE arrayPrimitiveLoop(lines, startIndex, options, count, baseIndent,
                              lineIndex + 1, Append(result, value.v))

parseArrayBody(header, lines, startIndex, options) ==
  \* Check if tabular format
  IF Includes(header, "{") THEN parseTabular(header, lines, startIndex, options)
  ELSE LET keyResult == parseKey(header) IN
    IF Failed(keyResult) THEN PThrow(keyResult.err)
    ELSE IF ~keyResult.v.found
      THEN PThrow(ToonDecodeError("Invalid array header", startIndex, <<>>))
    ELSE LET bracketMatch == ArrayMatch(keyResult.v.rest)
             count == countOf(bracketMatch.bracket)
             nextLineIndex == startIndex + 1
         IN
      IF ~bracketMatch.ok
        THEN PThrow(ToonDecodeError("Invalid array header format", startIndex, <<>>))
      ELSE IF CountIsZero(count) THEN PR(VArr(<<>>), 1, {})
      \* Check if next line uses list format (starts with hyphen)
      ELSE IF nextLineIndex < Len(lines)
                /\ IsListMarker(Trim(LineAt(lines, nextLineIndex)))
        THEN parseListFormat(lines, nextLineIndex, count,
                             getIndentLevel(LineAt(lines, nextLineIndex)), options)
      \* Regular primitive array: lines[lineIndex] may be undefined
      ELSE IF nextLineIndex >= Len(lines)
        THEN PThrow(TypeError("Cannot read properties of undefined"))
      ELSE arrayPrimitiveLoop(lines, startIndex, options, count,
                              getIndentLevel(LineAt(lines, nextLineIndex)),
                              nextLineIndex, <<>>)

\* Section: Find base indentation; -1 when only blank lines remain
RECURSIVE findBaseIndent(_, _)
findBaseIndent(lines, i) ==
  IF i >= Len(lines) THEN -1
  ELSE IF ~IsBlank(LineAt(lines, i)) THEN getIndentLevel(LineAt(lines, i))
  ELSE findBaseIndent(lines, i + 1)

\* the line loop of parseLines and its result
RECURSIVE linesLoop(_, _, _, _, _, _, _)
linesLoop(lines, startIndex, options, baseIndent, lineIndex, result, keyMetadata) ==
  IF lineIndex >= Len(lines) THEN
    IF Len(result.k) = 0 THEN PR(VNull, lineIndex - startIndex, {})
    ELSE PR(result, lineIndex - startIndex, keyMetadata)
  ELSE LET line == LineAt(lines, lineIndex)
           indent == getIndentLevel(line)
           content == Trim(line)
           j == KeyPrefixEnd(content, KeyChar)
       IN
    \* Skip blank lines
    IF IsBlank(line)
      THEN linesLoop(lines, startIndex, options, baseIndent, lineIndex + 1,
                     result, keyMetadata)
    \* End of current object
    ELSE IF indent < baseIndent /\ lineIndex > startIndex THEN
      IF Len(result.k) = 0 THEN PR(VNull, lineIndex - startIndex, {})
      ELSE PR(result, lineIndex - startIndex, keyMetadata)
    \* Only process lines at current indent level
    ELSE IF indent # baseIndent
      THEN linesLoop(lines, startIndex, options, baseIndent, lineIndex + 1,
                     result, keyMetadata)
    \* Section: Handle inline arrays (with values after colon)
    ELSE IF InlineFrom(content, j) THEN
      LET parsed == parseInlineArray(content, lineIndex)
          keyResult == parseKey(content)
      IN IF Failed(parsed) THEN PThrow(parsed.err)
         ELSE linesLoop(lines, startIndex, options, baseIndent, lineIndex + 1,
                        ObjSet(result, parsed.v.key, VArr(parsed.v.values)),
                        IF keyResult.v.found
                          THEN MetaSet(keyMetadata, parsed.v.key, keyResult.v.wasQuoted)
                          ELSE keyMetadata)
    \* Section: Handle tabular arrays
    ELSE IF TabularFrom(content, j) THEN
      LET parsed == parseTabular(content, lines, lineIndex, options)
          keyResult == parseKey(content)
      IN IF Failed(parsed) THEN parsed
         ELSE IF keyResult.v.found
           THEN linesLoop(lines, startIndex, options, baseIndent,
                          lineIndex + parsed.linesConsumed,
                          ObjSet(result, keyResult.v.key, parsed.value),
                          MetaSet(keyMetadata, keyResult.v.key, keyResult.v.wasQuoted))
           ELSE linesLoop(lines, startIndex, options, baseIndent,
                          lineIndex + parsed.linesConsumed, result, keyMetadata)
    \* Section: Handle arrays (multiline)
    ELSE IF MultilineFrom(content, j) THEN
      LET parsed == parseArray(content, lines, lineIndex, options)
          keyResult == parseKey(content)
      IN IF Failed(parsed) THEN parsed
         ELSE IF keyResult.v.found
           THEN linesLoop(lines, startIndex, options, baseIndent,
                          lineIndex + parsed.linesConsumed,
                          ObjSet(result, keyResult.v.key, parsed.value),
                          MetaSet(keyMetadata, keyResult.v.key, keyResult.v.wasQuoted))
           ELSE linesLoop(lines, startIndex, options, baseIndent,
                          lineIndex + parsed.linesConsumed, result, keyMetadata)
    \* Section: Handle key: value
    ELSE IF Includes(content, ":") THEN
      LET keyResult == parseKey(content) IN
      IF Failed(keyResult) THEN PThrow(keyResult.err)
      ELSE IF ~keyResult.v.found
        THEN linesLoop(lines, startIndex, options, baseIndent, lineIndex + 1,
                       result, keyMetadata)
      ELSE LET key == keyResult.v.key
               colonMatch == ColonMatch(keyResult.v.rest)
               valueStr == Trim(colonMatch.tail)
               meta == MetaSet(keyMetadata, key, keyResult.v.wasQuoted)
           IN
        IF ~colonMatch.ok
          THEN PThrow(ToonDecodeError("Missing colon in key-value context",
                                      lineIndex + 1, <<>>))
        ELSE IF valueStr = <<>> THEN
          \* Nested object or empty object
          LET nestedStart == lineIndex + 1
              nested == parseLines(lines, nestedStart, options)
          IN IF Failed(nested) THEN nested
             ELSE linesLoop(lines, startIndex, options, baseIndent,
                            nestedStart + nested.linesConsumed,
                            ObjSet(result, key,
                                   IF nested.value = VNull THEN EmptyObj
                                   ELSE nested.value),
                            meta)
        ELSE LET pv == parsePrimitive(valueStr, lineIndex) IN
          IF Failed(pv) THEN PThrow(pv.err)
          ELSE linesLoop(lines, startIndex, options, baseIndent, lineIndex + 1,
                         ObjSet(result, key, pv.v), meta)
    \* Standalone value - error in strict nested context
    ELSE IF options.strict /\ lineIndex > startIndex
      THEN PThrow(ToonDecodeError("Missing colon in key-value context",
                                  lineIndex + 1, <<>>))
    ELSE linesLoop(lines, startIndex, options, baseIndent, lineIndex + 1,
                   result, keyMetadata)

parseLinesBody(lines, startIndex, options) ==
  LET baseIndent == findBaseIndent(lines, startIndex) IN
  IF baseIndent = -1 THEN PR(VNull, 0, {})
  ELSE linesLoop(lines, startIndex, options, baseIndent, startIndex, EmptyObj, {})

(***************************************************************************)
(* 4.E Decoder: strict indentation, path expansion and decode               *)
(***************************************************************************)
\* the loop of validateIndentation from line i: the error thrown, or NoErr
RECURSIVE validateIndentation(_, _, _)
validateIndentation(lines, indent, i) ==
  IF i >= Len(lines) THEN NoErr
  ELSE LET line == LineAt(lines, i)
           indentLevel == getIndentLevel(line)
       IN
    \* Skip empty lines
    IF IsBlank(line) THEN validateIndentation(lines, indent, i + 1)
    \* Check for tabs in indentation
    ELSE IF Includes(Take(line, indentLevel), TAB)
      THEN ToonDecodeError(
             "Tab characters not allowed in indentation in strict mode",
             i + 1, <<>>)
    \* Check if indentation is multiple of indent size (x % 0 is NaN)
    ELSE IF indentLevel > 0 /\ (indent = 0 \/ indentLevel % indent # 0)
      THEN ToonDecodeError("Invalid indentation", i + 1, <<indent, indentLevel>>)
    ELSE validateIndentation(lines, indent, i + 1)

\* /^[a-zA-Z_]\w*$/.test(part)
IsIdentifier(part) ==
  /\ Len(part) >= 1
  /\ part[1] \in Lower \cup Upper \cup {"_"}
  /\ \A i \in 2..Len(part) : part[i] \in WordChar

shouldExpandKey_ignoreQuoted(key, wasQuoted, options) ==
  /\ options.expandPaths = "safe"
  /\ Includes(key, ".")
  /\ LET parts == SplitOn(key, ".", 1, <<>>)
     IN \A i \in 1..Len(parts) : IsIdentifier(parts[i])

shouldExpandKey(key, wasQuoted, options) ==
  /\ options.expandPaths = "safe"
  /\ ~wasQuoted
  /\ Includes(key, ".")
  /\ LET parts == SplitOn(key, ".", 1, <<>>)
     IN \A i \in 1..Len(parts) : IsIdentifier(parts[i])

\* 'array', 'object' or 'primitive'; null is a primitive here
TypeName(v) ==
  IF v.t = "arr" THEN "array" ELSE IF v.t = "obj" THEN "object" ELSE "primitive"

\* { ...existing, ...value }
RECURSIVE spread(_, _, _)
spread(existing, value, i) ==
  IF i > Len(value.k) THEN existing
  ELSE spread(ObjSet(existing, value.k[i], value.a[i]), value, i + 1)

RECURSIVE setNestedValue(_, _, _, _)
setNestedValue(obj, parts, value, options) ==
  \* reached through a null that typeof reports as 'object'
  IF obj.t # "obj" THEN Throw(TypeError("Cannot read properties of null"))
  ELSE IF Len(parts) = 0 THEN Ret(obj)
  ELSE IF Len(parts) = 1 THEN
    LET key == parts[1] IN
    IF ObjHas(obj, key) THEN
      LET existing == ObjGet(obj, key) IN
      IF TypeName(existing) # TypeName(value) THEN
        IF options.strict
          THEN Throw(ToonDecodeError("Path expansion conflict", 0, <<>>))
          \* LWW: overwrite
          ELSE Ret(ObjSet(obj, key, value))
      \* Deep merge objects
      ELSE IF TypeName(existing) = "object"
        THEN Ret(ObjSet(obj, key, spread(existing, value, 1)))
      ELSE Ret(ObjSet(obj, key, value))
    ELSE Ret(ObjSet(obj, key, value))
  ELSE
    LET first == parts[1]
        rest == Tail(parts)
        conflict == ObjHas(obj, first)
                      /\ ObjGet(obj, first).t \notin {"obj", "null"}
        child == IF ~ObjHas(obj, first) \/ conflict THEN EmptyObj
                 ELSE ObjGet(obj, first)
        sub == setNestedValue(child, rest, value, options)
    IN IF conflict /\ options.strict
         THEN Throw(ToonDecodeError("Path expansion conflict", 0, <<>>))
       ELSE IF Failed(sub) THEN sub
       ELSE Ret(ObjSet(obj, first, sub.v))

\* the loop of expandPaths over Object.entries(obj)
RECURSIVE expandLoop(_, _, _, _, _)
expandLoop(obj, metadata, options, i, result) ==
  IF i > Len(obj.k) THEN Ret(result)
  ELSE LET key == obj.k[i]
           value == obj.a[i]
           wasQuoted == key \in metadata
       IN
    IF shouldExpandKey(key, wasQuoted, options) THEN
      LET r == setNestedValue(result, SplitOn(key, ".", 1, <<>>), value, options) IN
      IF Failed(r) THEN r ELSE expandLoop(obj, metadata, options, i + 1, r.v)
    ELSE expandLoop(obj, metadata, options, i + 1, ObjSet(result, key, value))

expandPaths(obj, metadata, options) == expandLoop(obj, metadata, options, 1, EmptyObj)

\* options.x ?? default
normalizeOptions(options) ==
  [strict |-> IF "strict" \in DOMAIN options THEN options.strict ELSE FALSE,
   indent |-> IF "indent" \in DOMAIN options THEN options.indent ELSE 2,
   expandPaths |-> IF "expandPaths" \in DOMAIN options
                     THEN options.expandPaths ELSE "off"]

\* decode after the empty-document and indentation steps
decodeBodyBody(lines, opts) ==
  LET nonEmptyLines == SelectSeq(lines, LAMBDA l : ~IsBlank(l))
      line == Trim(nonEmptyLines[1])
      quotedWhole == StartsWith(line, <<DQ>>) /\ EndsWith(line, <<DQ>>)
                       /\ Len(line) > 1
      keyResult == parseKey(line)
      allPrimitives == \A i \in 1..Len(nonEmptyLines) :
                         /\ ~Includes(nonEmptyLines[i], ":")
                         /\ ~StartsWith(nonEmptyLines[i], <<"[">>)
      parsedRoot == parseRootArray(line, lines, 0, opts)
      result == parseLines(lines, 0, opts)
  IN
  \* Section: Check for root-level primitive (single non-empty line)
  IF Len(nonEmptyLines) = 1 /\ quotedWhole /\ Failed(keyResult)
    THEN Throw(keyResult.err)
  ELSE IF Len(nonEmptyLines) = 1 /\ quotedWhole
            /\ (~keyResult.v.found
                  \/ ~StartsWith(Trim(keyResult.v.rest), <<":">>))
    THEN parsePrimitive(nonEmptyLines[1], 0)
  ELSE IF Len(nonEmptyLines) = 1 /\ ~Includes(line, ":")
    THEN parsePrimitive(nonEmptyLines[1], 0)
  \* Section: Check for multiple primitives at root in strict mode
  ELSE IF opts.strict /\ Len(nonEmptyLines) > 1 /\ allPrimitives
    THEN Throw(ToonDecodeError(
           "Multiple primitives at root not allowed in strict mode", 1, <<>>))
  \* Section: Check for root array (starts with [)
  ELSE IF StartsWith(line, <<"[">>) THEN
    IF Failed(parsedRoot) THEN Throw(parsedRoot.err) ELSE Ret(parsedRoot.value)
  ELSE IF Failed(result) THEN Throw(result.err)
  \* Section: Apply path expansion if enabled
  ELSE IF opts.expandPaths = "safe" /\ result.value.t = "obj"
    THEN expandPaths(result.value, result.keyMetadata, opts)
  ELSE Ret(result.value)

\* ---------------------------------------------------------------------------
\* The line cursor of the decoder's loops, one iteration at a time
\* ---------------------------------------------------------------------------

\* The position of one loop: the cursor before the last iteration (from), the
\* cursor now (lineIndex), the length of the result built so far (len), and
\* whether the loop has returned, thrown or hit its break (exit)
Cursor(from, lineIndex, len) ==
  [from |-> from, lineIndex |-> lineIndex, len |-> len, exit |-> FALSE,
   nested |-> <<>>]
LoopExit(lineIndex, len) ==
  [from |-> lineIndex, lineIndex |-> lineIndex, len |-> len, exit |-> TRUE,
   nested |-> <<>>]
\* An iteration that called parseLines again, on the lines from nestedStart
Nested(from, nestedStart, lineIndex) ==
  [from |-> from, lineIndex |-> lineIndex, len |-> 0, exit |-> FALSE,
   nested |-> <<nestedStart>>]

\* One iteration of the while loop of parseLines
parseLinesStepBody(lines, startIndex, options, baseIndent, lineIndex) ==
  IF lineIndex >= Len(lines) THEN LoopExit(lineIndex, 0)
  ELSE LET line == LineAt(lines, lineIndex)
           indent == getIndentLevel(line)
           content == Trim(line)
           j == KeyPrefixEnd(content, KeyChar)
       IN
    \* Skip blank lines
    IF IsBlank(line) THEN Cursor(lineIndex, lineIndex + 1, 0)
    \* End of current object
    ELSE IF indent < baseIndent /\ lineIndex > startIndex THEN LoopExit(lineIndex, 0)
    \* Only process lines at current indent level
    ELSE IF indent # baseIndent THEN Cursor(lineIndex, lineIndex + 1, 0)
    \* Section: Handle inline arrays (with values after colon)
    ELSE IF InlineFrom(content, j) THEN
      IF Failed(parseInlineArray(content, lineIndex)) THEN LoopExit(lineIndex, 0)
      ELSE Cursor(lineIndex, lineIndex + 1, 0)
    \* Section: Handle tabular arrays
    ELSE IF TabularFrom(content, j) THEN
      LET parsed == parseTabular(content, lines, lineIndex, options) IN
      IF Failed(parsed) THEN LoopExit(lineIndex, 0)
      ELSE Cursor(lineIndex, lineIndex + parsed.linesConsumed, 0)
    \* Section: Handle arrays (multiline)
    ELSE IF MultilineFrom(content, j) THEN
      LET parsed == parseArray(content, lines, lineIndex, options) IN
      IF Failed(parsed) THEN LoopExit(lineIndex, 0)
      ELSE Cursor(lineIndex, lineIndex + parsed.linesConsumed, 0)
    \* Section: Handle key: value
    ELSE IF Includes(content, ":") THEN
      LET keyResult == parseKey(content) IN
      IF Failed(keyResult) THEN LoopExit(lineIndex, 0)
      ELSE IF ~keyResult.v.found THEN Cursor(lineIndex, lineIndex + 1, 0)
      ELSE LET colonMatch == ColonMatch(keyResult.v.rest)
               valueStr == Trim(colonMatch.tail)
           IN
        IF ~colonMatch.ok THEN LoopExit(lineIndex, 0)
        ELSE IF valueStr = <<>> THEN
          \* Nested object or empty object
          LET nestedStart == lineIndex + 1
              nested == parseLines(lines, nestedStart, options)
          IN IF Failed(nested) THEN LoopExit(lineIndex, 0)
             ELSE Nested(lineIndex, nestedStart, nestedStart + nested.linesConsumed)
        ELSE IF Failed(parsePrimitive(valueStr, lineIndex)) THEN LoopExit(lineIndex, 0)
        ELSE Cursor(lineIndex, lineIndex + 1, 0)
    \* Standalone value - error in strict nested context
    ELSE IF options.strict /\ lineIndex > startIndex THEN LoopExit(lineIndex, 0)
    ELSE Cursor(lineIndex, lineIndex + 1, 0)

\* One iteration of the inner while loop of parseListFormat that reads the
\* additional fields of a list item
itemFieldsStepBody(lines, baseIndent, options, lineIndex) ==
  IF lineIndex >= Len(lines) THEN LoopExit(lineIndex, 0)
  ELSE LET nextLine == LineAt(lines, lineIndex) IN
    IF IsBlank(nextLine) THEN Cursor(lineIndex, lineIndex + 1, 0)
    ELSE IF getIndentLevel(nextLine) <= baseIndent THEN LoopExit(lineIndex, 0)
    ELSE LET f == itemField(Trim(nextLine), lines, lineIndex, options, EmptyObj,
                            Field(EmptyObj, lineIndex, TRUE)) IN
      IF Failed(f) \/ f.stop THEN LoopExit(lineIndex, 0)
      ELSE Cursor(lineIndex, f.lineIndex, 0)

\* One iteration of the while loop of parseListFormat
parseListFormatStepBody(lines, count, baseIndent, options, lineIndex, len) ==
  IF ~(BelowCount(len, count) /\ lineIndex < Len(lines)) THEN LoopExit(lineIndex, len)
  ELSE LET line == LineAt(lines, lineIndex)
           indent == getIndentLevel(line)
           content == Trim(line)
           itemContent == Trim(Drop(content, 3))
       IN
    \* Check for blank lines
    IF IsBlank(line) THEN
      IF options.strict /\ len > 0 /\ BelowCount(len, count)
        THEN LoopExit(lineIndex, len)
        ELSE Cursor(lineIndex, lineIndex + 1, len)
    \* Check for list item marker
    ELSE IF indent = baseIndent /\ StartsWith(content, <<"-", SP>>) THEN
      \* Section: Handle empty list item
      IF itemContent = <<>> THEN Cursor(lineIndex, lineIndex + 1, len + 1)
      \* Section: Handle inline array as list item
      ELSE IF BracketClose(itemContent, 1) > 0
                /\ CharIs(itemContent, BracketClose(itemContent, 1) + 1, ":") THEN
        LET parsed == parseRootArray(itemContent, lines, lineIndex, options) IN
        IF Failed(parsed) THEN LoopExit(lineIndex, len)
        ELSE Cursor(lineIndex, lineIndex + parsed.linesConsumed, len + 1)
      \* Section: Handle object with first field on hyphen line
      ELSE IF Includes(itemContent, ":") THEN
        LET first == itemField(itemContent, lines, lineIndex, options, EmptyObj,
                               Field(EmptyObj, lineIndex + 1, FALSE))
            more == itemFields(lines, baseIndent, options, first.obj, first.lineIndex)
        IN IF Failed(first) \/ Failed(more) THEN LoopExit(lineIndex, len)
           ELSE Cursor(lineIndex, more.lineIndex, len + 1)
      \* Section: Handle primitive value
      ELSE IF Failed(parsePrimitive(itemContent, lineIndex)) THEN LoopExit(lineIndex, len)
      ELSE Cursor(lineIndex, lineIndex + 1, len + 1)
    \* Handle hyphen alone on line
    ELSE IF indent = baseIndent /\ content = <<"-">>
      THEN Cursor(lineIndex, lineIndex + 1, len + 1)
    \* Unexpected content
    ELSE Cursor(lineIndex, lineIndex + 1, len)

\* One iteration of the while loop of parseArray over primitive lines
parseArrayStepBody(lines, options, count, baseIndent, lineIndex, len) ==
  IF ~(BelowCount(len, count) /\ lineIndex < Len(lines)) THEN LoopExit(lineIndex, len)
  ELSE LET line == LineAt(lines, lineIndex) IN
    IF IsBlank(line) THEN
      IF options.strict /\ len > 0 /\ BelowCount(len, count)
        THEN LoopExit(lineIndex, len)
        ELSE Cursor(lineIndex, lineIndex + 1, len)
    ELSE IF getIndentLevel(line) < baseIndent THEN LoopExit(lineIndex, len)
    ELSE IF Failed(parsePrimitive(line, lineIndex)) THEN LoopExit(lineIndex, len)
    ELSE Cursor(lineIndex, lineIndex + 1, len + 1)

\* One step of the row loop of parseTabular: a skipped blank line, or a row
parseTabularStepBody(lines, options, count, keys, delimiter, lineIndex, i) ==
  IF ~BelowCount(i, count) THEN LoopExit(lineIndex, i)
  ELSE IF lineIndex < Len(lines) /\ IsBlank(LineAt(lines, lineIndex)) THEN
    \* Skip blank lines
    IF options.strict /\ i > 0 /\ BelowCount(i, count)
      THEN LoopExit(lineIndex, i)
      ELSE Cursor(lineIndex, lineIndex + 1, i)
  ELSE IF lineIndex >= Len(lines) THEN LoopExit(lineIndex, i)
  ELSE LET values == parseRow(LineAt(lines, lineIndex), delimiter) IN
    IF Len(values) # Len(keys) THEN LoopExit(lineIndex, i)
    ELSE IF Failed(buildRow(keys, values, lineIndex, 1, EmptyObj))
      THEN LoopExit(lineIndex, i)
    ELSE Cursor(lineIndex, lineIndex + 1, i + 1)

NoFrame ==
  [ok |-> FALSE, startIndex |-> 0, baseIndent |-> 0, count |-> countOf(<<>>),
   keys |-> <<>>, delimiter |-> ",", lineIndex |-> 0]
FrameOf(startIndex, baseIndent, count, keys, delimiter, lineIndex) ==
  [ok |-> TRUE, startIndex |-> startIndex, baseIndent |-> baseIndent,
   count |-> count, keys |-> keys, delimiter |-> delimiter, lineIndex |-> lineIndex]

\* The frame with which the code enters a loop at line `at`: parseLines as
\* decode and the nested calls start it; parseTabular, parseArray and
\* parseListFormat from the header at that line; the additional-fields loop
\* after the first field of the list item at that line
FrameBody(loop, lines, options, at) ==
  LET line == LineAt(lines, at)
      content == Trim(line)
      keyResult == parseKey(content)
      rest == IF ~Failed(keyResult) /\ keyResult.v.found THEN keyResult.v.rest ELSE <<>>
      tabularMatch == TabularMatch(rest)
      bracketMatch == ArrayMatch(rest)
      count == countOf(bracketMatch.bracket)
      nextLineIndex == at + 1
      isList == nextLineIndex < Len(lines)
                  /\ IsListMarker(Trim(LineAt(lines, nextLineIndex)))
      itemContent == Trim(Drop(content, 3))
  IN
  CASE loop = "parseLines" ->
         IF findBaseIndent(lines, at) = -1 THEN NoFrame
         ELSE FrameOf(at, findBaseIndent(lines, at), countOf(<<>>), <<>>, ",", at)
    [] loop = "parseTabular" ->
         IF ~(Includes(content, "{") /\ tabularMatch.ok) THEN NoFrame
         ELSE FrameOf(at, 0, countOf(tabularMatch.bracket),
                      headerKeys(tabularMatch.keys,
                                 detectDelimiter(tabularMatch.bracket)),
                      detectDelimiter(tabularMatch.bracket), at + 1)
    [] loop = "parseListFormat" ->
         IF Includes(content, "{") \/ ~bracketMatch.ok \/ CountIsZero(count)
              \/ ~isList THEN NoFrame
         ELSE FrameOf(nextLineIndex, getIndentLevel(LineAt(lines, nextLineIndex)),
                      count, <<>>, ",", nextLineIndex)
    [] loop = "parseArray" ->
         IF Includes(content, "{") \/ ~bracketMatch.ok \/ CountIsZero(count)
              \/ isList \/ nextLineIndex >= Len(lines) THEN NoFrame
         ELSE FrameOf(at, getIndentLevel(LineAt(lines, nextLineIndex)),
                      count, <<>>, ",", nextLineIndex)
    [] loop = "itemFields" ->
         IF ~(StartsWith(content, <<"-", SP>>) /\ Includes(itemContent, ":")
                /\ ~(BracketClose(itemContent, 1) > 0
                       /\ CharIs(itemContent, BracketClose(itemContent, 1) + 1, ":")))
           THEN NoFrame
         ELSE LET first == itemField(itemContent, lines, at, options, EmptyObj,
                                     Field(EmptyObj, at + 1, FALSE)) IN
           IF Failed(first) THEN NoFrame
           ELSE FrameOf(at, getIndentLevel(line), countOf(<<>>), <<>>, ",",
                        first.lineIndex)

call(fn, args) ==
  CASE fn = "parseKey" ->
         parseKeyBody(args[1])
    [] fn = "parsePrimitive" ->
         parsePrimitiveBody(args[1], args[2])
    [] fn = "parseInlineArray" ->
         parseInlineArrayBody(args[1], args[2])
    [] fn = "parseTabular" ->
         parseTabularBody(args[1], args[2], args[3], args[4])
    [] fn = "parseRootArray" ->
         parseRootArrayBody(args[1], args[2], args[3], args[4])
    [] fn = "parseListFormat" ->
         parseListFormatBody(args[1], args[2], args[3], args[4], args[5])
    [] fn = "parseArray" ->
         parseArrayBody(args[1], args[2], args[3], args[4])
    [] fn = "parseLines" ->
         parseLinesBody(args[1], args[2], args[3])
    [] fn = "itemKeyValue" ->
         itemKeyValueBody(args[1], args[2], args[3], args[4], args[5], args[6])
    [] fn = "itemField" ->
         itemFieldBody(args[1], args[2], args[3], args[4], args[5], args[6])
    [] fn = "itemFields" ->
         itemFieldsBody(args[1], args[2], args[3], args[4], args[5])
    [] fn = "parseLinesStep" ->
         parseLinesStepBody(args[1], args[2], args[3], args[4], args[5])
    [] fn = "itemFieldsStep" ->
         itemFieldsStepBody(args[1], args[2], args[3], args[4])
    [] fn = "parseListFormatStep" ->
         parseListFormatStepBody(args[1], args[2], args[3], args[4], args[5], args[6])
    [] fn = "parseArrayStep" ->
         parseArrayStepBody(args[1], args[2], args[3], args[4], args[5], args[6])
    [] fn = "parseTabularStep" ->
         parseTabularStepBody(args[1], args[2], args[3], args[4], args[5], args[6], args[7])
    [] fn = "Frame" ->
         FrameBody(args[1], args[2], args[3], args[4])
    [] fn = "decodeBody" ->
         decodeBodyBody(args[1], args[2])

decode_parseBeforeValidate(toon, options) ==
  LET opts == normalizeOptions(options)
      lines == SplitLines(toon, 1, <<>>)
      body == decodeBody(lines, opts)
      bad == IF opts.strict THEN validateIndentation(lines, opts.indent, 0) ELSE NoErr
  IN IF IsBlank(toon) THEN Ret(EmptyObj)
     ELSE IF ~Failed(body) THEN body
     ELSE IF bad.kind # "none" THEN Throw(bad)
     ELSE body

decode(toon, options) ==
  LET opts == normalizeOptions(options)
      lines == SplitLines(toon, 1, <<>>)
      bad == IF opts.strict THEN validateIndentation(lines, opts.indent, 0) ELSE NoErr
  IN
  \* Section: Handle empty document
  IF IsBlank(toon) THEN Ret(EmptyObj)
  \* Section: Validate indentation in strict mode
  ELSE IF bad.kind # "none" THEN Throw(bad)
  ELSE decodeBody(lines, opts)

(***************************************************************************)
(* Encoder: the tree walk of the design's encoder section, default options  *)
(***************************************************************************)
RECURSIVE IntToStr(_)
IntToStr(n) ==
  IF n < 10 THEN <<DigitChar(n)>> ELSE Append(IntToStr(n \div 10), DigitChar(n % 10))

\* the shortest decimal form of the number <<neg, m, e>>, for e >= -1
RECURSIVE Zeros(_)
Zeros(n) == IF n = 0 THEN <<>> ELSE <<"0">> \o Zeros(n - 1)

formatNumber(n) ==
  LET neg == n[1]
      m == n[2]
      e == n[3]
      sign == IF neg = 1 /\ m # 0 THEN <<"-">> ELSE <<>>
  IN IF e >= 0 THEN sign \o IntToStr(m) \o (IF m = 0 THEN <<>> ELSE Zeros(e))
     ELSE sign \o IntToStr(m \div 10) \o <<".">> \o IntToStr(m % 10)

IsPrimitive(v) == v.t \in {"null", "true", "false", "num", "str"}

encodePrimitive(v, inArray, delimiter) ==
  CASE v.t = "null" -> <<"n", "u", "l", "l">>
    [] v.t = "true" -> <<"t", "r", "u", "e">>
    [] v.t = "false" -> <<"f", "a", "l", "s", "e">>
    [] v.t = "num" -> formatNumber(v.n)
    [] v.t = "str" -> quoteString(v.s, inArray, delimiter)

Indentation(depth) == [i \in 1..(2 * depth) |-> SP]

\* every element a non-empty object of primitives, all with one key list
IsUniformObjects(arr) ==
  /\ Len(arr.a) > 0
  /\ \A i \in 1..Len(arr.a) :
       /\ arr.a[i].t = "obj"
       /\ Len(arr.a[i].k) > 0
       /\ arr.a[i].k = arr.a[1].k
       /\ \A j \in 1..Len(arr.a[i].a) : IsPrimitive(arr.a[i].a[j])

IsPrimitiveArray(arr) == \A i \in 1..Len(arr.a) : IsPrimitive(arr.a[i])

encodeRow(vals, delimiter) ==
  Join([i \in 1..Len(vals) |-> encodePrimitive(vals[i], TRUE, delimiter)],
       <<delimiter>>)

\* lines with the first one re-headed by the list marker
AsListItem(ls, depth) ==
  <<Indentation(depth) \o <<"-", SP>> \o Drop(ls[1], 2 * depth + 3)>> \o Tail(ls)

RECURSIVE FlattenLines(_)
FlattenLines(groups) ==
  IF Len(groups) = 0 THEN <<>> ELSE groups[1] \o FlattenLines(Tail(groups))

RECURSIVE encodeObject(_, _), encodeArray(_, _, _), encodeItem(_, _)
\* the lines of an object's fields at the given depth
encodeObject(obj, depth) ==
  FlattenLines([i \in 1..Len(obj.k) |->
    LET key == quoteKey(obj.k[i])
        v == obj.a[i]
    IN IF IsPrimitive(v)
         THEN <<Indentation(depth) \o key \o <<":", SP>>
                  \o encodePrimitive(v, FALSE, ",")>>
       ELSE IF v.t = "arr" THEN encodeArray(key, v, depth)
       ELSE <<Indentation(depth) \o key \o <<":">>>> \o encodeObject(v, depth + 1)])

\* the lines of an array under its (already quoted) key, by form selection
encodeArray(key, arr, depth) ==
  LET head == Indentation(depth) \o key \o <<"[">> \o IntToStr(Len(arr.a)) \o <<"]">>
  IN IF Len(arr.a) = 0 THEN <<head \o <<":">>>>
     ELSE IF IsUniformObjects(arr) THEN
       <<head \o <<"{">>
           \o Join([j \in 1..Len(arr.a[1].k) |-> quoteKey(arr.a[1].k[j])], <<",">>)
           \o <<"}", ":">>>>
         \o [i \in 1..Len(arr.a) |->
               Indentation(depth + 1) \o encodeRow(arr.a[i].a, ",")]
     ELSE IF IsPrimitiveArray(arr) THEN
       <<head \o <<":", SP>> \o encodeRow(arr.a, ",")>>
     ELSE <<head \o <<":">>>>
            \o FlattenLines([i \in 1..Len(arr.a) |-> encodeItem(arr.a[i], depth + 1)])

\* the lines of one list item
encodeItem(v, depth) ==
  IF IsPrimitive(v)
    THEN <<Indentation(depth) \o <<"-", SP>> \o encodePrimitive(v, FALSE, ",")>>
  ELSE IF v.t = "arr" THEN AsListItem(encodeArray(<<>>, v, depth + 1), depth)
  ELSE IF Len(v.k) = 0 THEN <<Indentation(depth) \o <<"-">>>>
  ELSE AsListItem(encodeObject(v, depth + 1), depth)

encode(value) ==
  IF IsPrimitive(value) THEN encodePrimitive(value, FALSE, ",")
  ELSE IF value.t = "arr" THEN Join(encodeArray(<<>>, value, 0), <<LF>>)
  ELSE Join(encodeObject(value, 0), <<LF>>)

(***************************************************************************)
(* Bounded inputs                                                           *)
(***************************************************************************)
StringsUpTo(alphabet, n) == UNION {[1..k -> alphabet] : k \in 0..n}
Delimiters == {",", TAB, "|"}

MaxEscLen == 3
EscAlphabet == {BS, DQ, LF, CR, TAB, "n", "r", "t"}

MaxPrimLen == 3
PrimAlphabet == {"a", "e", "0", "1", "-", ".", ",", ":", SP, TAB, "é"}
Keywords == {<<"t", "r", "u", "e">>, <<"f", "a", "l", "s", "e">>,
             <<"n", "u", "l", "l">>}

\* Lists of fields are laid out as one string of field characters and field
\* breaks, of bounded length
MaxLayoutLen == 6
FieldBreak == "break"
FieldAlphabet(d) == {SP, DQ, BS, d}
FieldLists(d) ==
  {SplitOn(w, FieldBreak, 1, <<>>) :
     w \in StringsUpTo(FieldAlphabet(d) \cup {FieldBreak}, MaxLayoutLen)}

(***************************************************************************)
(* escapeString then unescapeString                                         *)
(***************************************************************************)
InitEscape ==
  /\ pc = "escape"
  /\ input \in [str : StringsUpTo(EscAlphabet, MaxEscLen),
                lineIndex : {Undefined, 0}]
  /\ output = <<>>

Escape ==
  /\ pc = "escape"
  /\ pc' = "unescape"
  /\ output' = escapeString(input.str)
  /\ UNCHANGED input

Unescape ==
  /\ pc = "unescape"
  /\ pc' = "unescaped"
  /\ output' = [scan |-> unescapeString(output, input.lineIndex),
                replace |-> unescapeString_replace(output)]
  /\ UNCHANGED input

NextEscape == Escape \/ Unescape
SpecEscape == InitEscape /\ [][NextEscape]_vars

(***************************************************************************)
(* needsQuoting against parsePrimitive                                      *)
(***************************************************************************)
InitPrimitive ==
  /\ pc = "primitive"
  /\ input \in [str : StringsUpTo(PrimAlphabet, MaxPrimLen) \cup Keywords,
                delimiter : Delimiters]
  /\ output = <<>>

ParsePrimitive ==
  /\ pc = "primitive"
  /\ pc' = "parsed"
  /\ output' = [needs |-> needsQuoting(input.str, input.delimiter),
                value |-> parsePrimitive(input.str, 0)]
  /\ UNCHANGED input

NextPrimitive == ParsePrimitive
SpecPrimitive == InitPrimitive /\ [][NextPrimitive]_vars

(***************************************************************************)
(* join then splitByDelimiter                                               *)
(***************************************************************************)
InitSplit ==
  /\ pc = "join"
  /\ \E d \in Delimiters :
       input \in [v : FieldLists(d), delimiter : {d}]
  /\ output = <<>>

SplitJoined ==
  /\ pc = "join"
  /\ pc' = "fields"
  /\ output' = splitByDelimiter(Join(input.v, <<input.delimiter>>),
                                input.delimiter)
  /\ UNCHANGED input

NextSplit == SplitJoined
SpecSplit == InitSplit /\ [][NextSplit]_vars

(***************************************************************************)
(* decode                                                                   *)
(***************************************************************************)
Decode ==
  /\ pc = "decode"
  /\ pc' = "decoded"
  /\ output' = decode(input.text, input.options)
  /\ UNCHANGED input

NextDecode == Decode

\* Arrays of every form with a declared count and a number of elements
MaxCount == 2
MaxRows == 2
ArrayForms == {"inline", "tabular", "list", "lines"}
\* N as the decimal digits of a bracket header
RECURSIVE Digits(_)
Digits(n) == IF n < 10 THEN <<DigitChar(n)>>
             ELSE Digits(n \div 10) \o <<DigitChar(n % 10)>>

ArrayHeader(form, key, count, rows) ==
  key \o <<"[">> \o Digits(count) \o <<"]">> \o
    (CASE form = "inline" ->
            IF rows = 0 THEN <<":">>
            ELSE <<":", SP>> \o Join([i \in 1..rows |-> <<"7">>], <<",">>)
       [] form = "tabular" -> <<"{", "f", "}", ":">>
       [] OTHER -> <<":">>)

ArrayRow(form) == IF form = "list" THEN <<SP, SP, "-", SP, "7">>
                  ELSE <<SP, SP, "7">>

ArrayDoc(form, key, count, rows) ==
  Join(<<ArrayHeader(form, key, count, rows)>> \o
         (IF form = "inline" THEN <<>> ELSE [i \in 1..rows |-> ArrayRow(form)]),
       <<LF>>)

InitArrays ==
  /\ pc = "decode"
  /\ \E form \in ArrayForms, key \in {<<>>, <<"x", "s">>},
        count \in 0..MaxCount, rows \in 0..MaxRows, strict \in BOOLEAN,
        trailer \in {<<>>, <<LF>>, <<LF>> \o <<"y", ":", SP, "1">>} :
       input = [text |-> ArrayDoc(form, key, count, rows) \o trailer,
                options |-> [strict |-> strict],
                form |-> form, keyed |-> key # <<>>, count |-> count, rows |-> rows]
  /\ output = <<>>

SpecArrays == InitArrays /\ [][NextDecode]_vars

\* Documents of lines drawn from a fixed stock
MaxDocLines == 2
StockLines ==
  {<<"x", "s", "[", "3", "]", ":", SP, "1", ",", "2">>,
   <<"x", "s", "[", "2", "]", ":", SP, "1", ",", "2">>,
   <<"x", "s", "[", "1", "]", ":">>,
   <<"a", ":", SP, "1">>,
   <<"a", ":">>,
   <<SP, SP, "b", ":", SP, "2">>,
   <<"a", ":", SP, DQ, "x", BS, "q", DQ>>,
   <<DQ, "k", BS, "q", DQ, ":", SP, "1">>,
   <<"a", ":", SP, DQ, "x", BS, DQ>>,
   <<"t", "[", "1", "]", "{", DQ, "f", BS, "q", DQ, "}", ":">>,
   <<SP, SP, "7">>,
   <<SP, SP, "-", SP, "7">>,
   <<"a", ".", "b", ":", SP, "1">>,
   <<"a", ":", SP, "n", "u", "l", "l">>,
   <<"-", SP, "7">>,
   <<"[", "2", "]", ":", SP, "1", ",", "2">>,
   <<"[", "1", "]", "{", "f", "}", ":">>,
   <<"[", "1", "]", ":">>,
   <<>>}

InitDecode ==
  /\ pc = "decode"
  /\ \E n \in 1..MaxDocLines, strict \in BOOLEAN, expand \in {"off", "safe"} :
       \E ls \in [1..n -> StockLines] :
         input = [text |-> Join(ls, <<LF>>),
                  options |-> [strict |-> strict, expandPaths |-> expand]]
  /\ output = <<>>

SpecDecode == InitDecode /\ [][NextDecode]_vars

\* Quoted text with escapes on the three paths by which decode unescapes
MaxEscapeBody == 2
EscapePaths == {"value", "key", "header"}
EscapeDoc(path, body) ==
  CASE path = "value" -> <<"a", ":", SP, DQ>> \o body \o <<DQ>>
    [] path = "key" -> <<DQ>> \o body \o <<DQ, ":", SP, "1">>
    [] path = "header" -> <<"t", "[", "1", "]", "{", DQ>> \o body \o
                            <<DQ, "}", ":", LF, SP, SP, "7">>

InitEscapes ==
  /\ pc = "decode"
  /\ \E path \in EscapePaths, strict \in BOOLEAN,
        body \in StringsUpTo({BS, "n", "q"}, MaxEscapeBody) :
       input = [text |-> EscapeDoc(path, body), options |-> [strict |-> strict],
                path |-> path, body |-> body]
  /\ output = <<>>

SpecEscapes == InitEscapes /\ [][NextDecode]_vars

\* Indented lines under strict and non-strict options
MaxIndentLines == 2
IndentPrefixes == {<<>>, <<SP>>, <<SP, SP>>, <<SP, SP, SP>>, <<TAB>>, <<SP, SP, TAB>>}
IndentContents == {<<"a", ":", SP, "1">>, <<"a", ":", SP, "2">>, <<"a", ":">>, <<>>}
IndentOptions == {[strict |-> TRUE], [strict |-> FALSE],
                  [strict |-> TRUE, indent |-> 3], [strict |-> FALSE, indent |-> 3]}

InitIndent ==
  /\ pc = "decode"
  /\ \E n \in 1..MaxIndentLines, options \in IndentOptions :
       \E ps \in [1..n -> IndentPrefixes], cs \in [1..n -> IndentContents] :
         input = [text |-> Join([i \in 1..n |-> ps[i] \o cs[i]], <<LF>>),
                  options |-> options]
  /\ output = <<>>

SpecIndent == InitIndent /\ [][NextDecode]_vars

\* Root objects of dotted, plain and quoted keys under every expandPaths
MaxExpandLines == 2
ExpandKeys == {<<"a">>,
               <<"a", ".", "b">>,
               <<"a", ".", "b", ".", "c">>,
               <<"a", ".", "b", ".", "d">>,
               <<"a", ".", ".", "b">>,
               <<"a", ".", "1", "b">>,
               <<"a", ".", "b", "-", "c">>,
               <<"b", ".", "a", "_", "1">>}
ExpandOptions == {<<>>, [expandPaths |-> "off"], [expandPaths |-> "safe"],
                  [expandPaths |-> "safe", strict |-> TRUE]}
KeyLine(entry) ==
  (IF entry.quoted THEN <<DQ>> \o entry.key \o <<DQ>> ELSE entry.key)
    \o <<":", SP, entry.value>>

InitExpand ==
  /\ pc = "decode"
  /\ \E n \in 1..MaxExpandLines, options \in ExpandOptions :
       \E es \in [1..n -> [key : ExpandKeys, quoted : BOOLEAN, value : {"1", "2"}]] :
         input = [text |-> Join([i \in 1..n |-> KeyLine(es[i])], <<LF>>),
                  options |-> options, entries |-> es]
  /\ output = <<>>

SpecExpand == InitExpand /\ [][NextDecode]_vars

\* Value trees: a root object whose first field is any tree of the stock
MaxElems == 2
MaxItems == 2
Primitives == {VNull, VBool(TRUE), VNum(0, 1, 0), VNum(1, 15, -1),
               VStr(<<"x">>), VStr(<<"a", ",", "b">>)}
SeqsUpTo(set, lo, hi) == UNION {[1..k -> set] : k \in lo..hi}
PrimitiveArrays == {VArr(elems) : elems \in SeqsUpTo(Primitives, 0, MaxElems)}
FlatObjects ==
  {EmptyObj} \cup {VObj(<<<<"a">>>>, <<p>>) : p \in Primitives}
    \cup {VObj(<<<<"a">>, <<"b", SP, "c">>>>, <<p, q>>) :
            p \in {VNum(0, 1, 0), VStr(<<"x">>)}, q \in Primitives}
Items == {VNum(0, 1, 0), VStr(<<"x">>), EmptyObj,
          VObj(<<<<"a">>>>, <<VNum(0, 1, 0)>>),
          VObj(<<<<"a">>, <<"b">>>>, <<VNum(0, 1, 0), VStr(<<"x">>)>>),
          VArr(<<VNum(0, 1, 0)>>)}
ItemArrays == {VArr(elems) : elems \in SeqsUpTo(Items, 1, MaxItems)}
Trees == Primitives \cup PrimitiveArrays \cup FlatObjects \cup ItemArrays
ValueTrees ==
  Trees \cup {VObj(<<<<"a">>>>, <<v>>) : v \in Trees}
        \cup {VObj(<<<<"a">>, <<"b">>>>, <<v, p>>) : v \in Trees, p \in Primitives}

InitRoundTrip ==
  /\ pc = "encode"
  /\ \E value \in ValueTrees : input = [value |-> value, text |-> <<>>, options |-> <<>>]
  /\ output = <<>>

Encode ==
  /\ pc = "encode"
  /\ pc' = "decode"
  /\ input' = [input EXCEPT !.text = encode(input.value)]
  /\ UNCHANGED output

NextRoundTrip == Encode \/ Decode
SpecRoundTrip == InitRoundTrip /\ [][NextRoundTrip]_vars

\* Root objects whose keys address overlapping paths with values of each kind
MaxPathLines == 2
PathKeys == {<<"a">>, <<"a", ".", "b">>, <<"a", ".", "b", ".", "c">>}
PathKinds == {"primitive", "null", "array", "object"}
PathOptions == {[expandPaths |-> "safe", strict |-> TRUE],
                [expandPaths |-> "safe", strict |-> FALSE]}
PathLine(entry) ==
  CASE entry.kind = "primitive" -> entry.key \o <<":", SP, entry.value>>
    [] entry.kind = "null" -> entry.key \o <<":", SP, "n", "u", "l", "l">>
    [] entry.kind = "array" -> entry.key \o <<"[", "1", "]", ":", SP, entry.value>>
    [] entry.kind = "object" ->
         entry.key \o <<":", LF, SP, SP, "b", ":", SP, entry.value>>

InitPaths ==
  /\ pc = "decode"
  /\ \E n \in 1..MaxPathLines, options \in PathOptions :
       \E es \in [1..n -> [key : PathKeys, kind : PathKinds, value : {"1", "2"}]] :
         input = [text |-> Join([i \in 1..n |-> PathLine(es[i])], <<LF>>),
                  options |-> options, entries |-> es]
  /\ output = <<>>

SpecPaths == InitPaths /\ [][NextDecode]_vars

\* documents of key: value lines whose keys repeat and may be quoted digits
MaxKeyLines == 3
OrderKeys == {<<"a">>, <<"b">>, <<DQ, "1", DQ>>, <<DQ, "2", DQ>>}
OrderOptions == {[strict |-> TRUE], [strict |-> FALSE]}

InitOrder ==
  /\ pc = "decode"
  /\ \E n \in 1..MaxKeyLines, options \in OrderOptions :
       \E es \in [1..n -> [key : OrderKeys, value : {"1", "2"}]] :
         input = [text |-> Join([i \in 1..n |-> es[i].key \o <<":", SP, es[i].value>>],
                                <<LF>>),
                  options |-> options, entries |-> es]
  /\ output = <<>>

SpecOrder == InitOrder /\ [][NextDecode]_vars

\* a line a: with an empty value, followed by lines at several indentations
MaxBlockLines == 2
BlockIndents == {<<>>, <<SP, SP>>, <<SP, SP, SP, SP>>}
BlockContents == {<<"b", ":", SP, "1">>, <<"c", ":", SP, "2">>, <<"d", ":">>, <<>>}
BlockOptions == {[strict |-> TRUE], [strict |-> FALSE]}

InitBlock ==
  /\ pc = "decode"
  /\ \E n \in 1..MaxBlockLines, options \in BlockOptions :
       \E es \in [1..n -> [indent : BlockIndents, content : BlockContents]] :
         input = [text |-> Join(<<<<"a", ":">>>>
                                  \o [i \in 1..n |->
                                        IF es[i].content = <<>> THEN <<>>
                                        ELSE es[i].indent \o es[i].content],
                                <<LF>>),
                  options |-> options, entries |-> es]
  /\ output = <<>>

SpecBlock == InitBlock /\ [][NextDecode]_vars

\* arrays with as many elements as declared and one blank line between two
\* of them (blankAt = 0: no blank line)
MaxBlankElems == 3
ElementForms == {"primitive", "object", "multiline", "tabular", "column"}
BlankLines == {<<>>, <<SP, SP>>}

ElementHeader(form, key, n) ==
  key \o <<"[">> \o Digits(n) \o <<"]">> \o
    (CASE form = "tabular" -> <<"{", "f", ",", "g", "}", ":">>
       [] form = "column" -> <<"{", "f", "}", ":">>
       [] OTHER -> <<":">>)

ElementLines(form) ==
  CASE form = "primitive" -> <<<<SP, SP, "-", SP, "7">>>>
    [] form = "object" -> <<<<SP, SP, "-", SP, "a", ":", SP, "1">>>>
    [] form = "multiline" -> <<<<SP, SP, "-", SP, "a", ":", SP, "1">>,
                               <<SP, SP, SP, SP, "b", ":", SP, "2">>>>
    [] form = "tabular" -> <<<<SP, SP, "7", ",", "8">>>>
    [] form = "column" -> <<<<SP, SP, "7">>>>

RECURSIVE ElementDoc(_, _, _, _, _)
ElementDoc(form, n, blankAt, blank, i) ==
  IF i > n THEN <<>>
  ELSE ElementLines(form) \o (IF i = blankAt THEN <<blank>> ELSE <<>>)
         \o ElementDoc(form, n, blankAt, blank, i + 1)

InitBlank ==
  /\ pc = "decode"
  /\ \E form \in ElementForms, key \in {<<>>, <<"x", "s">>}, strict \in BOOLEAN,
        n \in 2..MaxBlankElems, blank \in BlankLines :
       \E blankAt \in 0..(n - 1) :
         input = [text |-> Join(<<ElementHeader(form, key, n)>>
                                  \o ElementDoc(form, n, blankAt, blank, 1), <<LF>>),
                  options |-> [strict |-> strict],
                  form |-> form, keyed |-> key # <<>>, count |-> n, blankAt |-> blankAt]
  /\ output = <<>>

SpecBlank == InitBlank /\ [][NextDecode]_vars

\* a nested object block under a: whose lines may lack a colon
MaxColonLines == 3
ColonContents == {<<"b", ":", SP, "1">>, <<"c", ":", SP, "2">>,
                  <<"o", "o", "p", "s">>, <<"7">>}

InitColon ==
  /\ pc = "decode"
  /\ \E n \in 1..MaxColonLines, strict \in BOOLEAN :
       \E es \in [1..n -> ColonContents] :
         input = [text |-> Join(<<<<"a", ":">>>> \o [i \in 1..n |-> <<SP, SP>> \o es[i]],
                                <<LF>>),
                  options |-> [strict |-> strict], entries |-> es]
  /\ output = <<>>

SpecColon == InitColon /\ [][NextDecode]_vars

(***************************************************************************)
(* parsePrimitive on lexemes                                                *)
(***************************************************************************)
MaxLexLen == 4
LexAlphabet == {DQ, BS, "0", "7", "-", ".", "e", "n", SP}
LongLexemes == Keywords \cup {<<"-", "0", "0", "7">>, <<"-", "0", ".", "0">>,
                              <<DQ, BS, "n", DQ>>, <<"7", ".", "0", "e", "-", "7">>}

InitLexeme ==
  /\ pc = "lexeme"
  /\ input \in [str : StringsUpTo(LexAlphabet, MaxLexLen) \cup LongLexemes,
                lineIndex : {0, 2}]
  /\ output = <<>>

ParseLexeme ==
  /\ pc = "lexeme"
  /\ pc' = "classified"
  /\ output' = parsePrimitive(input.str, input.lineIndex)
  /\ UNCHANGED input

NextLexeme == ParseLexeme
SpecLexeme == InitLexeme /\ [][NextLexeme]_vars

(***************************************************************************)
(* needsQuoting and needsQuotingInArray under each delimiter                *)
(***************************************************************************)
MaxQuoteLen == 3
QuoteAlphabet == {"a", "0", "1", "_", ",", "|", TAB, SP, ":", "é"}

InitQuoting ==
  /\ pc = "quoting"
  /\ input \in [str : StringsUpTo(QuoteAlphabet, MaxQuoteLen), delimiter : Delimiters]
  /\ output = <<>>

NeedsQuoting ==
  /\ pc = "quoting"
  /\ pc' = "quoted"
  /\ output' = [value |-> needsQuoting(input.str, input.delimiter),
                element |-> needsQuotingInArray(input.str, input.delimiter)]
  /\ UNCHANGED input

NextQuoting == NeedsQuoting
SpecQuoting == InitQuoting /\ [][NextQuoting]_vars

(***************************************************************************)
(* parseKey on lines, and decode of the same line                           *)
(***************************************************************************)
MaxKeyLen == 4
KeyAlphabet == {DQ, BS, "a", ".", "-", ":", "[", SP, "1"}
LongKeyLines == {<<DQ, "a", DQ, ":", SP, "1">>, <<DQ, "a", BS, DQ, DQ, ":", SP, "1">>,
                 <<"a", ".", "a", "-", "1", ":", SP, "1">>,
                 <<"a", "[", "1", "]", ":", SP, "1">>,
                 <<"a", SP, "a", ":", SP, "1">>, <<DQ, "a", ":", SP, "1">>}
KeyLinePrefixes == {<<>>, <<"z", ":", SP, "0", LF>>}

InitKey ==
  /\ pc = "key"
  /\ input \in [line : StringsUpTo(KeyAlphabet, MaxKeyLen) \cup LongKeyLines,
                prefix : KeyLinePrefixes, strict : BOOLEAN]
  /\ output = <<>>

ParseKey ==
  /\ pc = "key"
  /\ pc' = "keyed"
  /\ output' = [key |-> parseKey(input.line),
                decoded |-> decode(input.prefix \o input.line,
                                   [strict |-> input.strict])]
  /\ UNCHANGED input

NextKey == ParseKey
SpecKey == InitKey /\ [][NextKey]_vars

\* a list whose one item holds a nested list xs under its first field
MaxNested == 2
NestedForms == {"primitive", "object", "fields"}
NestedItem(form) ==
  CASE form = "primitive" -> <<<<SP, SP, SP, SP, SP, SP, "-", SP, "7">>>>
    [] form = "object" -> <<<<SP, SP, SP, SP, SP, SP, "-", SP, "a", ":", SP, "1">>>>
    [] form = "fields" -> <<<<SP, SP, SP, SP, SP, SP, "-", SP, "a", ":", SP, "1">>,
                            <<SP, SP, SP, SP, SP, SP, SP, SP, "b", ":", SP, "2">>>>

RECURSIVE NestedLines(_, _)
NestedLines(forms, i) ==
  IF i > Len(forms) THEN <<>> ELSE NestedItem(forms[i]) \o NestedLines(forms, i + 1)

InitNested ==
  /\ pc = "decode"
  /\ \E n \in 1..MaxNested, key \in {<<>>, <<"y", "s">>}, strict \in BOOLEAN,
        sibling \in BOOLEAN :
       \E forms \in [1..n -> NestedForms] :
         input = [text |-> Join(<<key \o <<"[", "1", "]", ":">>,
                                  <<SP, SP, "-", SP, "x", "s", "[">> \o Digits(n)
                                    \o <<"]", ":">>>>
                                  \o NestedLines(forms, 1)
                                  \o (IF sibling
                                        THEN <<<<SP, SP, SP, SP, "c", ":", SP, "3">>>>
                                        ELSE <<>>),
                                <<LF>>),
                  options |-> [strict |-> strict],
                  keyed |-> key # <<>>, forms |-> forms, sibling |-> sibling]
  /\ output = <<>>

SpecNested == InitNested /\ [][NextDecode]_vars

\* array headers with an arbitrary bracket content, followed by rows
MaxBracketLen == 3
MaxHeaderRows == 2
BracketAlphabet == {"1", "2", "x", "-", "|", SP}
Brackets == StringsUpTo(BracketAlphabet, MaxBracketLen) \ {<<>>}

HeaderDoc(form, key, bracket, rows) ==
  LET d == IF Includes(bracket, "|") THEN "|" ELSE ","
      head == key \o <<"[">> \o bracket \o <<"]">>
  IN CASE form = "inline" ->
            head \o <<":", SP>> \o Join([i \in 1..rows |-> <<"7">>], <<d>>)
       [] form = "tabular" ->
            Join(<<head \o <<"{", "f", "}", ":">>>> \o [i \in 1..rows |-> ArrayRow(form)],
                 <<LF>>)
       [] OTHER ->
            Join(<<head \o <<":">>>> \o [i \in 1..rows |-> ArrayRow(form)], <<LF>>)

InitHeader ==
  /\ pc = "decode"
  /\ \E form \in ArrayForms, key \in {<<>>, <<"x", "s">>}, bracket \in Brackets,
        rows \in 1..MaxHeaderRows, strict \in BOOLEAN :
       input = [text |-> HeaderDoc(form, key, bracket, rows),
                options |-> [strict |-> strict],
                form |-> form, keyed |-> key # <<>>, bracket |-> bracket, rows |-> rows]
  /\ output = <<>>

SpecHeader == InitHeader /\ [][NextDecode]_vars

(***************************************************************************)
(* quoteKey, then parseKey and decode of the line key: v                    *)
(***************************************************************************)
MaxTripLen == 3
TripAlphabet == {"a", "1", "_", ".", "-", "/", "#", BS, DQ, ":", SP, "é"}

InitKeyTrip ==
  /\ pc = "quoteKey"
  /\ input \in [key : StringsUpTo(TripAlphabet, MaxTripLen), strict : BOOLEAN]
  /\ output = <<>>

KeyRoundTrip ==
  /\ pc = "quoteKey"
  /\ pc' = "keyRead"
  /\ LET line == quoteKey(input.key) \o <<":", SP, "v">> IN
       output' = [line |-> line,
                  key |-> parseKey(line),
                  decoded |-> decode(line, [strict |-> input.strict])]
  /\ UNCHANGED input

NextKeyTrip == KeyRoundTrip
SpecKeyTrip == InitKeyTrip /\ [][NextKeyTrip]_vars

(***************************************************************************)
(* quoteString of array elements, joined, split and parsed again            *)
(***************************************************************************)
\* parseString of utils/string.ts, which unescapes with the replace chain
parseString_replace(str) ==
  LET trimmed == Trim(str) IN
  IF StartsWith(trimmed, <<DQ>>) /\ EndsWith(trimmed, <<DQ>>)
    THEN unescapeString_replace(SubSeq(trimmed, 2, Len(trimmed) - 1))
    ELSE trimmed

\* parsePrimitive when parseString is the one of utils/string.ts
parsePrimitive_replace(str, lineIndex) ==
  LET trimmed == Trim(str) IN
  IF StartsWith(trimmed, <<DQ>>) /\ EndsWith(trimmed, <<DQ>>) /\ Len(trimmed) >= 2
    THEN Ret(VStr(parseString_replace(trimmed)))
    ELSE parsePrimitive(str, lineIndex)

\* lists of strings laid out as one string of characters and breaks
MaxElemLayout == 4
ElemAlphabet(d) == {"n", "1", SP, DQ, BS, ":", d}
LongElems == {<<<<"t", "r", "u", "e">>>>, <<<<"-", "1", ".", "5", "e", "1">>>>,
              <<<<SP, "a", SP>>, <<"n", "u", "l", "l">>>>,
              <<<<"a", LF, "b">>, <<BS, "n">>>>}
ElemLists(d) ==
  {SplitOn(w, FieldBreak, 1, <<>>) :
     w \in StringsUpTo(ElemAlphabet(d) \cup {FieldBreak}, MaxElemLayout)}
    \cup LongElems

InitElements ==
  /\ pc = "quoteElements"
  /\ \E d \in Delimiters :
       input \in [v : ElemLists(d), delimiter : {d}]
  /\ output = <<>>

ElementsRoundTrip ==
  /\ pc = "quoteElements"
  /\ pc' = "elements"
  /\ LET quoted == [i \in 1..Len(input.v) |->
                      quoteString(input.v[i], TRUE, input.delimiter)]
         fields == splitByDelimiter(Join(quoted, <<input.delimiter>>), input.delimiter)
     IN output' = [each |-> [i \in 1..Len(input.v) |->
                               splitByDelimiter(quoted[i], input.delimiter)],
                   fields |-> fields,
                   values |-> [i \in 1..Len(fields) |-> parsePrimitive(fields[i], 0)],
                   replaced |-> [i \in 1..Len(fields) |->
                                   parsePrimitive_replace(fields[i], 0)]]
  /\ UNCHANGED input

NextElements == ElementsRoundTrip
SpecElements == InitElements /\ [][NextElements]_vars

\* ---------------------------------------------------------------------------
\* The line cursor of the decoder's loops, one iteration at a time
\* ---------------------------------------------------------------------------

parseLinesStep(lines, startIndex, options, baseIndent, lineIndex) ==
  call("parseLinesStep", <<lines, startIndex, options, baseIndent, lineIndex>>)
itemFieldsStep(lines, baseIndent, options, lineIndex) ==
  call("itemFieldsStep", <<lines, baseIndent, options, lineIndex>>)
parseListFormatStep(lines, count, baseIndent, options, lineIndex, len) ==
  call("parseListFormatStep", <<lines, count, baseIndent, options, lineIndex, len>>)
parseArrayStep(lines, options, count, baseIndent, lineIndex, len) ==
  call("parseArrayStep", <<lines, options, count, baseIndent, lineIndex, len>>)
parseTabularStep(lines, options, count, keys, delimiter, lineIndex, i) ==
  call("parseTabularStep", <<lines, options, count, keys, delimiter, lineIndex, i>>)
Frame(loop, lines, options, at) ==
  call("Frame", <<loop, lines, options, at>>)

MaxCursorLines == 3

Loops == {"parseLines", "parseTabular", "parseListFormat", "parseArray", "itemFields"}

CursorLines ==
  { <<>>,
    <<"a", ":">>,
    <<SP, SP, "b", ":", SP, "2">>,
    <<"x", "s", "[", "2", "]", ":">>,
    <<"x", "s", "[", "0", "]", ":">>,
    <<"x", "s", "[", "1", "]", "{", "f", "}", ":">>,
    <<SP, SP, "-", SP, "7">>,
    <<SP, SP, "-", SP, "a", ":">>,
    <<SP, SP, "-", SP, "x", "s", "[", "1", "]", ":">>,
    <<SP, SP, "-", SP, "[", "1", "]", ":", SP, "7">>,
    <<SP, SP, SP, SP, "-", SP, "7">>,
    <<SP, SP, "7">> }

InitCursor ==
  \E n \in 1..MaxCursorLines, loop \in Loops, strict \in BOOLEAN :
    \E lines \in [1..n -> CursorLines], at \in 0..(n - 1) :
      \E frame \in {Frame(loop, lines, [strict |-> strict], at)} :
      /\ frame.ok
      /\ pc = loop
      /\ input = [lines |-> lines, options |-> [strict |-> strict], at |-> at,
                  startIndex |-> frame.startIndex, baseIndent |-> frame.baseIndent,
                  count |-> frame.count, keys |-> frame.keys,
                  delimiter |-> frame.delimiter]
      /\ output = Cursor(frame.lineIndex, frame.lineIndex, 0)

Iterate(loop, next) ==
  /\ pc = loop
  /\ output' = next
  /\ pc' = IF next.exit THEN "returned" ELSE loop
  /\ UNCHANGED input

ParseLinesIteration ==
  \E next \in {parseLinesStep(input.lines, input.startIndex, input.options,
                               input.baseIndent, output.lineIndex)} :
    Iterate("parseLines", next)

ParseListFormatIteration ==
  \E next \in {parseListFormatStep(input.lines, input.count, input.baseIndent,
                                    input.options, output.lineIndex, output.len)} :
    Iterate("parseListFormat", next)

ItemFieldsIteration ==
  \E next \in {itemFieldsStep(input.lines, input.baseIndent, input.options,
                               output.lineIndex)} :
    Iterate("itemFields", next)

ParseArrayIteration ==
  \E next \in {parseArrayStep(input.lines, input.options, input.count,
                               input.baseIndent, output.lineIndex, output.len)} :
    Iterate("parseArray", next)

ParseTabularIteration ==
  \E next \in {parseTabularStep(input.lines, input.options, input.count,
                                 input.keys, input.delimiter, output.lineIndex,
                                 output.len)} :
    Iterate("parseTabular", next)

NextCursor ==
  \/ ParseLinesIteration
  \/ ParseListFormatIteration
  \/ ItemFieldsIteration
  \/ ParseArrayIteration
  \/ ParseTabularIteration

SpecCursor == InitCursor /\ [][NextCursor]_vars


(***************************************************************************)
(* Claims                                                                   *)
(***************************************************************************)
\* C2: for every string s, unescapeString(escapeString(s)) equals s, also
\* when a literal backslash is followed by n, r, t, a quote or a backslash.
C2_EscapeRoundTrip ==
  pc = "unescaped" =>
    /\ ~Failed(output.scan) /\ output.scan.v = input.str
    /\ output.replace = input.str

\* the scanning unescapeString alone inverts escapeString
C2_ScanRoundTrip ==
  pc = "unescaped" => ~Failed(output.scan) /\ output.scan.v = input.str

\* C4: needsQuoting(s, d) = false implies parsePrimitive(s) returns the
\* string s itself.
C4_BareStringIsItself ==
  pc = "parsed" /\ ~output.needs =>
    ~Failed(output.value) /\ output.value.v = VStr(input.str)

C4_Witness ==
  /\ pc = "parsed" /\ ~output.needs
  /\ Includes(input.str, ",") /\ output.value.v = VStr(input.str)

\* the state of the splitByDelimiter scanner after reading f from outside
\* quotes: <<inQuotes, escaped, a delimiter was met outside quotes>>
RECURSIVE FieldScan(_, _, _, _, _, _)
FieldScan(f, d, i, inQuotes, escaped, met) ==
  IF i > Len(f) THEN <<inQuotes, escaped, met>>
  ELSE IF escaped THEN FieldScan(f, d, i + 1, inQuotes, FALSE,
                                 met \/ (f[i] = d /\ ~inQuotes))
  ELSE IF f[i] = BS THEN FieldScan(f, d, i + 1, inQuotes, TRUE, met)
  ELSE IF f[i] = DQ THEN FieldScan(f, d, i + 1, ~inQuotes, FALSE, met)
  ELSE FieldScan(f, d, i + 1, inQuotes, FALSE, met \/ (f[i] = d /\ ~inQuotes))

HasUnquotedDelimiter(f, d) == FieldScan(f, d, 1, FALSE, FALSE, FALSE)[3]
ClosedField(f, d) ==
  LET st == FieldScan(f, d, 1, FALSE, FALSE, FALSE) IN ~st[1] /\ ~st[2]

\* C5 as stated: if no element of v contains an unquoted d, then
\* splitByDelimiter(join(v, d), d) returns exactly v.
C5_SplitJoin ==
  pc = "fields"
    /\ (\A i \in 1..Len(input.v) :
          ~HasUnquotedDelimiter(input.v[i], input.delimiter))
  => output = input.v

\* C5 amended: v is not empty and every element is trimmed, has no d outside
\* quotes, and leaves the scanner outside quotes with no pending backslash.
C5_SplitJoinClosedTrimmed ==
  pc = "fields" /\ Len(input.v) >= 1
    /\ (\A i \in 1..Len(input.v) :
          /\ ~HasUnquotedDelimiter(input.v[i], input.delimiter)
          /\ ClosedField(input.v[i], input.delimiter)
          /\ Trim(input.v[i]) = input.v[i])
  => output = input.v

C5_Witness ==
  /\ pc = "fields" /\ Len(input.v) = 2 /\ output = input.v
  /\ Includes(input.v[1], input.delimiter)
  /\ Len(input.v[2]) >= 1

\* C8: decode either returns a value or fails with a ToonDecodeError; it
\* never fails with any other kind of error.
C8_OnlyToonDecodeError ==
  pc = "decoded" => output.err.kind \in {"none", "ToonDecodeError"}

\* every array of a value
RECURSIVE ArraysOf(_)
ArraysOf(v) ==
  (IF v.t = "arr" THEN {v} ELSE {}) \cup
    UNION {ArraysOf(v.a[i]) : i \in 1..Len(v.a)}

\* C6: whenever decode returns successfully, every array in the result has
\* exactly the number of elements declared by the count N of its header, for
\* all array forms, keyed and root, also when fewer than N lines follow.
C6_DeclaredCountObserved ==
  pc = "decoded" /\ ~Failed(output) =>
    \A arr \in ArraysOf(output.v) : Len(arr.a) = input.count

XsThreeOneTwo == <<"x", "s", "[", "3", "]", ":", SP, "1", ",", "2">>

\* C7: every ToonDecodeError raised by decode carries the 1-based number of
\* the offending line; xs[3]: 1,2 fails with a count mismatch that reports
\* expected 3, got 2 and line 1.
C7_ErrorLineOneBased ==
  pc = "decoded" =>
    /\ output.err.kind = "ToonDecodeError" =>
         output.err.line \in 1..Len(SplitLines(input.text, 1, <<>>))
    /\ input.text = XsThreeOneTwo =>
         output.err = ToonDecodeError("Array count mismatch", 1, <<0, 3, 2>>)

\* whether str holds a backslash that opens no valid escape, reading
\* escape pairs from the left
RECURSIVE HasInvalidEscape(_, _)
HasInvalidEscape(str, i) ==
  IF i > Len(str) THEN FALSE
  ELSE IF str[i] # BS THEN HasInvalidEscape(str, i + 1)
  ELSE IF i = Len(str) THEN TRUE
  ELSE IF str[i + 1] \in {"n", "r", "t", DQ, BS} THEN HasInvalidEscape(str, i + 2)
  ELSE TRUE

\* C3: unescaping rejects, as an invalid escape sequence, every input with a
\* backslash not followed by n, r, t, quote or backslash (a final backslash
\* included), on every path: quoted values, quoted keys, quoted header fields.
C3_InvalidEscapeRejected ==
  pc = "decoded" /\ HasInvalidEscape(input.body, 1) =>
    Failed(output) /\ output.err.msg = "Invalid escape sequence"

\* the indent option in force
IndentOption(options) ==
  IF "indent" \in DOMAIN options THEN options.indent ELSE 2

\* a non-empty line whose leading whitespace holds a tab or has a length
\* that is no multiple of indent
BadlyIndented(line, indent) ==
  LET lead == SubSeq(line, 1, RunEnd(line, 1, WhiteSpace) - 1) IN
  /\ \E i \in 1..Len(line) : line[i] \notin WhiteSpace
  /\ (\E i \in 1..Len(lead) : lead[i] = TAB) \/ Len(lead) % indent # 0

FirstBadLine(text, indent) ==
  LET ls == SplitLines(text, 1, <<>>)
      bad == {i \in 1..Len(ls) : BadlyIndented(ls[i], indent)}
  IN IF bad = {} THEN 0 ELSE CHOOSE i \in bad : \A j \in bad : i <= j

\* C9: in strict mode decode fails with an indentation error naming the
\* 1-based line of the first non-empty line whose leading whitespace has a
\* tab or a length that is no multiple of indent; no such document decodes.
C9_StrictIndentation ==
  pc = "decoded" /\ input.options.strict
    /\ FirstBadLine(input.text, IndentOption(input.options)) > 0
  => /\ output.err.kind = "ToonDecodeError"
     /\ output.err.line = FirstBadLine(input.text, IndentOption(input.options))
     /\ output.err.msg \in
          {"Tab characters not allowed in indentation in strict mode",
           "Invalid indentation"}

C9_Witness ==
  /\ pc = "decoded"
  /\ input.text = <<SP, SP, "a", ":", SP, "1", LF, SP, "a", ":", SP, "2">>
  /\ input.options = [strict |-> TRUE]
  /\ output.err = ToonDecodeError("Invalid indentation", 2, <<2, 1>>)

\* the dot-separated parts of a key, read off character by character
RECURSIVE DotParts(_, _, _)
DotParts(key, i, cur) ==
  IF i > Len(key) THEN <<cur>>
  ELSE IF key[i] = "." THEN <<cur>> \o DotParts(key, i + 1, <<>>)
  ELSE DotParts(key, i + 1, Append(cur, key[i]))

\* [A-Za-z_] followed by word characters
IdentifierPart(part) ==
  /\ part # <<>>
  /\ part[1] \notin Digit
  /\ \A i \in 1..Len(part) : part[i] \in Lower \cup Upper \cup Digit \cup {"_"}

\* the condition under which the entry's key is to be expanded
Expands(entry, options) ==
  /\ "expandPaths" \in DOMAIN options /\ options.expandPaths = "safe"
  /\ ~entry.quoted
  /\ \E i \in 1..Len(entry.key) : entry.key[i] = "."
  /\ LET parts == DotParts(entry.key, 1, <<>>)
     IN \A i \in 1..Len(parts) : IdentifierPart(parts[i])

\* {p1: {p2: ... {pn: value}}}
RECURSIVE Nest(_, _)
Nest(parts, value) ==
  IF Len(parts) = 1 THEN VObj(<<parts[1]>>, <<value>>)
  ELSE VObj(<<parts[1]>>, <<Nest(Tail(parts), value)>>)

EntryValue(entry) == VNum(0, DigitVal(entry.value), 0)

\* the entry that writes its key last
Governs(es, i) == \A j \in (i + 1)..Len(es) : es[j].key # es[i].key

\* C10: a root-object key is expanded into nested objects if and only if
\* expandPaths is 'safe', the key was not written in quotes, it contains a
\* dot and every dot-separated part is an identifier; otherwise it is kept
\* verbatim.  A document of one key decodes to exactly the nested or the flat
\* object; in a document of several keys the flat key is present exactly
\* when it is not expanded.
C10_ExpandedIffSafeUnquotedDotted ==
  pc = "decoded" /\ ~Failed(output) =>
    LET es == input.entries IN
    /\ output.v.t = "obj"
    /\ \A i \in 1..Len(es) :
         Governs(es, i) =>
           (Expands(es[i], input.options) <=> ~ObjHas(output.v, es[i].key))
    /\ Len(es) = 1 =>
         output.v = IF Expands(es[1], input.options)
                      THEN Nest(DotParts(es[1].key, 1, <<>>), EntryValue(es[1]))
                      ELSE VObj(<<es[1].key>>, <<EntryValue(es[1])>>)

C10_Witness ==
  /\ pc = "decoded"
  /\ input.text = <<"a", ".", "b", ".", "c", ":", SP, "1", LF,
                    "a", ".", "b", ".", "d", ":", SP, "2">>
  /\ input.options = [expandPaths |-> "safe"]
  /\ output = Ret(VObj(<<<<"a">>>>, <<VObj(<<<<"b">>>>,
                <<VObj(<<<<"c">>, <<"d">>>>,
                       <<VNum(0, 1, 0), VNum(0, 2, 0)>>)>>)>>))

\* equality of value trees that compares objects by key set and per-key value
RECURSIVE SameValue(_, _)
SameValue(v, w) ==
  /\ v.t = w.t
  /\ CASE v.t = "arr" -> /\ Len(v.a) = Len(w.a)
                         /\ \A i \in 1..Len(v.a) : SameValue(v.a[i], w.a[i])
       [] v.t = "obj" -> /\ {v.k[i] : i \in 1..Len(v.k)} = {w.k[i] : i \in 1..Len(w.k)}
                         /\ \A i \in 1..Len(v.k) :
                              SameValue(v.a[i], ObjGet(w, v.k[i]))
       [] v.t = "num" -> v.n = w.n \/ (v.n[2] = 0 /\ w.n[2] = 0)
       [] OTHER -> v = w

\* C1: for every value tree V, empty objects and empty arrays nested anywhere
\* included, decode(encode(V)) equals V up to -0 and key order.
C1_RoundTrip ==
  pc = "decoded" /\ "value" \in DOMAIN input =>
    ~Failed(output) /\ SameValue(input.value, output.v)

\* the kind of the value an entry writes: null counts as a primitive
WrittenKind(entry) ==
  IF entry.kind \in {"primitive", "null"} THEN "primitive" ELSE entry.kind

\* the nodes an entry addresses, as <<path, kind>>: an object at every proper
\* prefix of its path, its own value at its path, and the field b of an
\* object value
PathNodes(entry) ==
  LET path == DotParts(entry.key, 1, <<>>) IN
  {<<SubSeq(path, 1, n), "object">> : n \in 1..(Len(path) - 1)}
    \cup {<<path, WrittenKind(entry)>>}
    \cup (IF entry.kind = "object" THEN {<<Append(path, <<"b">>), "primitive">>}
          ELSE {})

\* two entries with different keys that put values of different kinds on one path
PathConflict(e1, e2) ==
  /\ e1.key # e2.key
  /\ \E n1 \in PathNodes(e1), n2 \in PathNodes(e2) : n1[1] = n2[1] /\ n1[2] # n2[2]

\* C11: in strict mode with expandPaths 'safe', two root keys that address
\* the same path, or a path and its prefix, with values of incompatible kinds
\* make decode fail with a path expansion conflict, in either document order
\* and also when one key is plain.
C11_StrictPathConflict ==
  pc = "decoded" /\ input.options.strict /\ Len(input.entries) = 2
    /\ PathConflict(input.entries[1], input.entries[2])
  => /\ output.err.kind = "ToonDecodeError"
     /\ output.err.msg = "Path expansion conflict"

\* the value tree an entry writes
PathValue(entry) ==
  CASE entry.kind = "primitive" -> VNum(0, DigitVal(entry.value), 0)
    [] entry.kind = "null" -> VNull
    [] entry.kind = "array" -> VArr(<<VNum(0, DigitVal(entry.value), 0)>>)
    [] entry.kind = "object" -> VObj(<<<<"b">>>>, <<VNum(0, DigitVal(entry.value), 0)>>)

\* o with key k holding v: in place when k is there, appended otherwise
Put(o, k, v) ==
  IF \E i \in 1..Len(o.k) : o.k[i] = k
    THEN VObj(o.k, [i \in 1..Len(o.k) |-> IF o.k[i] = k THEN v ELSE o.a[i]])
    ELSE VObj(Append(o.k, k), Append(o.a, v))

RECURSIVE PutAll(_, _, _)
PutAll(o, w, i) == IF i > Len(w.k) THEN o ELSE PutAll(Put(o, w.k[i], w.a[i]), w, i + 1)

\* the value the stated rules leave at path in o: two objects at the leaf are
\* merged with the new keys winning, any other existing value is replaced,
\* and a prefix that holds no object is replaced by one
RECURSIVE PutPath(_, _, _)
PutPath(o, path, v) ==
  LET k == path[1]
      has == \E i \in 1..Len(o.k) : o.k[i] = k
      old == IF has THEN ObjGet(o, k) ELSE EmptyObj
  IN IF Len(path) = 1
       THEN IF has /\ old.t = "obj" /\ v.t = "obj" THEN Put(o, k, PutAll(old, v, 1))
            ELSE Put(o, k, v)
       ELSE Put(o, k, PutPath(IF old.t = "obj" THEN old ELSE EmptyObj, Tail(path), v))

\* the entries folded as the object read from the lines, then expanded
RECURSIVE ReadEntries(_, _, _)
ReadEntries(es, i, o) ==
  IF i > Len(es) THEN o ELSE ReadEntries(es, i + 1, Put(o, es[i].key, PathValue(es[i])))

RECURSIVE ExpandEntries(_, _, _)
ExpandEntries(read, i, o) ==
  IF i > Len(read.k) THEN o
  ELSE LET path == DotParts(read.k[i], 1, <<>>) IN
       ExpandEntries(read, i + 1,
                     IF Len(path) = 1 THEN Put(o, read.k[i], read.a[i])
                     ELSE PutPath(o, path, read.a[i]))

\* C12: in non-strict mode path expansion never fails: two plain objects on
\* one target are shallow-merged with the new keys winning, and in every
\* other combination (an existing null, primitive or array on a prefix of the
\* path included) the new value replaces the existing one.
C12_NonStrictLastWriterWins ==
  pc = "decoded" /\ ~input.options.strict =>
    /\ ~Failed(output)
    /\ SameValue(output.v,
                 ExpandEntries(ReadEntries(input.entries, 1, EmptyObj), 1, EmptyObj))

\* the name a written key denotes: the interior of a quoted key
KeyName(key) == IF key[1] = DQ THEN SubSeq(key, 2, Len(key) - 1) ELSE key

\* the names of the entries, each at its first occurrence
RECURSIVE FirstOccurrences(_, _, _)
FirstOccurrences(es, i, seen) ==
  IF i > Len(es) THEN seen
  ELSE FirstOccurrences(es, i + 1,
                        IF \E j \in 1..Len(seen) : seen[j] = KeyName(es[i].key)
                          THEN seen ELSE Append(seen, KeyName(es[i].key)))

LastOccurrence(es, name) ==
  CHOOSE i \in 1..Len(es) :
    /\ KeyName(es[i].key) = name
    /\ \A j \in (i + 1)..Len(es) : KeyName(es[j].key) # name

\* C13: the keys of a decoded object appear in the order of their first
\* occurrence in the document and a repeated key holds the value of its last
\* occurrence, quoted digit-only keys included.
C13_FirstOccurrenceOrder ==
  pc = "decoded" /\ ~Failed(output) =>
    LET names == FirstOccurrences(input.entries, 1, <<>>) IN
      /\ output.v.t = "obj"
      /\ output.v.k = names
      /\ \A i \in 1..Len(names) :
           output.v.a[i] =
             VNum(0, DigitVal(input.entries[LastOccurrence(input.entries, names[i])].value), 0)

\* the following lines that belong to the key line a: at indentation 0: the
\* run of blank or strictly deeper lines that starts right after it
RECURSIVE DeeperRun(_, _)
DeeperRun(es, i) ==
  IF i > Len(es) \/ (es[i].content # <<>> /\ es[i].indent = <<>>) THEN i - 1
  ELSE DeeperRun(es, i + 1)

BlockText(es, n) ==
  Join([i \in 1..n |-> IF es[i].content = <<>> THEN <<>> ELSE es[i].indent \o es[i].content],
       <<LF>>)

\* C14: the value of a line key: with an empty value is built only from the
\* following lines that are strictly deeper than the key line; when the next
\* non-blank line is not deeper, or there is none, the value is {} and that
\* line is a field of the enclosing object.
C14_EmptyValueTakesDeeperLines ==
  pc = "decoded" /\ ~Failed(output) =>
    LET es == input.entries
        n == DeeperRun(es, 1)
        block == decode(BlockText(es, n), input.options)
    IN /\ output.v.t = "obj"
       /\ ObjHas(output.v, <<"a">>)
       /\ IF \A i \in 1..n : es[i].content = <<>>
            THEN ObjGet(output.v, <<"a">>) = EmptyObj
            ELSE ~Failed(block) => ObjGet(output.v, <<"a">>) = block.v
       /\ n < Len(es) => ObjHas(output.v, <<es[n + 1].content[1]>>)

\* C15: a tabular array followed by more row lines than its declared count
\* fails to decode, at the root and under a key alike; the extra rows are
\* never silently dropped.
C15_ExtraRowsRejected ==
  pc = "decoded" /\ input.form = "tabular" /\ input.rows > input.count =>
    output.err.kind = "ToonDecodeError"

\* C16: a list-format array followed by more "- " item lines at the item
\* indentation than its header declares fails to decode; the extra items are
\* never silently ignored.
C16_ExtraItemsRejected ==
  pc = "decoded" /\ input.form = "list" /\ input.rows > input.count =>
    output.err.kind = "ToonDecodeError"

\* C17: in strict mode a blank line between two elements of an array makes
\* decode fail, for every array form: between list items after a primitive
\* or a multi-line object, and between rows of a keyed or a root tabular
\* array.
C17_StrictBlankLineInArray ==
  pc = "decoded" /\ input.options.strict /\ input.blankAt > 0 => Failed(output)

\* C18: in strict mode every non-blank line of a nested object block that is
\* no array header and holds no colon makes decode fail with a missing-colon
\* error, whatever its position in the block, the first line included.
C18_StrictMissingColon ==
  pc = "decoded" /\ input.options.strict
    /\ (\E i \in 1..Len(input.entries) : ~Includes(input.entries[i], ":"))
  => /\ output.err.kind = "ToonDecodeError"
     /\ output.err.msg = "Missing colon in key-value context"

\* C19: parsePrimitive classifies the trimmed lexeme in a fixed order: a
\* lexeme that starts with a double quote must end with one and be at least
\* two long (else Unterminated string) and yields the unescaped interior;
\* true, false and null yield the constants; a lexeme of the number pattern
\* yields the number, -0 as 0, unless its integer part has a leading zero
\* followed by a digit, which yields the lexeme as a string; anything else is
\* the lexeme as a string.
C19_ClassificationOrder ==
  pc = "classified" =>
    LET t == Trim(input.str)
        z == IF t # <<>> /\ t[1] = "-" THEN 2 ELSE 1
    IN output =
         IF t # <<>> /\ t[1] = DQ THEN
           IF Len(t) < 2 \/ t[Len(t)] # DQ
             THEN Throw(ToonDecodeError("Unterminated string", input.lineIndex + 1, <<>>))
             ELSE LET u == unescapeString(SubSeq(t, 2, Len(t) - 1), input.lineIndex)
                  IN IF Failed(u) THEN u ELSE Ret(VStr(u.v))
         ELSE IF t = <<"t", "r", "u", "e">> THEN Ret(VBool(TRUE))
         ELSE IF t = <<"f", "a", "l", "s", "e">> THEN Ret(VBool(FALSE))
         ELSE IF t = <<"n", "u", "l", "l">> THEN Ret(VNull)
         ELSE IF IsNumberLexeme(t) THEN
           IF Len(t) > z /\ t[z] = "0" /\ t[z + 1] \in Digit THEN Ret(VStr(t))
           ELSE IF NumberOf(t).n[2] = 0 THEN Ret(VNum(0, 0, 0))
           ELSE Ret(NumberOf(t))
         ELSE Ret(VStr(t))

C19_Witness ==
  /\ pc = "classified"
  /\ input.str = <<"-", "0", "0", "7">>
  /\ output = Ret(VStr(<<"-", "0", "0", "7">>))

\* the safe class: letters, digits, underscore, whitespace, code points from
\* U+0080
SafeClass == WordChar \cup WhiteSpace \cup NonAscii

\* C20: under the tab or the pipe delimiter a string of commas and otherwise
\* only safe characters needs no quoting, as a free value and as an array
\* element; and under every delimiter d a string that contains d needs
\* quoting as an array element.
C20_CommaSafeOffComma ==
  pc = "quoted" =>
    /\ ( /\ input.delimiter # ","
         /\ Includes(input.str, ",")
         /\ \A i \in 1..Len(input.str) : input.str[i] \in SafeClass \cup {","} )
       => ~output.value /\ ~output.element
    /\ Includes(input.str, input.delimiter) => output.element

\* C20 as it holds: the string must also be free of tab, line feed and
\* carriage return, have no leading or trailing whitespace and not start
\* with 0 followed by a digit.
C20_CommaSafeWhenTrimmed ==
  pc = "quoted" =>
    /\ ( /\ input.delimiter # ","
         /\ Includes(input.str, ",")
         /\ \A i \in 1..Len(input.str) :
              input.str[i] \in (SafeClass \cup {","}) \ {TAB, LF, CR}
         /\ input.str = Trim(input.str)
         /\ ~(Len(input.str) >= 2 /\ input.str[1] = "0" /\ input.str[2] \in Digit) )
       => ~output.value /\ ~output.element
    /\ Includes(input.str, input.delimiter) => output.element

C20_Witness ==
  /\ pc = "quoted"
  /\ input.str = <<"a", ",", "1">>
  /\ input.delimiter = "|"
  /\ ~output.value /\ ~output.element

\* the character at i is escaped: an odd number of backslashes runs up to it
Escaped(str, i) ==
  LET run == CHOOSE n \in 0..(i - 1) :
               /\ \A j \in (i - n)..(i - 1) : str[j] = BS
               /\ (n = i - 1 \/ str[i - n - 1] # BS)
  IN run % 2 = 1

\* the character at i lies inside quotes: an odd number of unescaped quotes
\* comes before it
InsideQuotes(str, i) ==
  Cardinality({j \in 1..(i - 1) : str[j] = DQ /\ ~Escaped(str, j)}) % 2 = 1

\* the positions of the unescaped delimiters outside quotes
Cuts(str, d) ==
  {i \in 1..Len(str) : str[i] = d /\ ~Escaped(str, i) /\ ~InsideQuotes(str, i)}

\* the k-th cut, with position 0 before the first and Len + 1 after the last
CutAt(str, d, k) ==
  IF k = 0 THEN 0
  ELSE IF k > Cardinality(Cuts(str, d)) THEN Len(str) + 1
  ELSE CHOOSE i \in Cuts(str, d) : Cardinality({j \in Cuts(str, d) : j < i}) = k - 1

\* C21: splitByDelimiter starts a new field exactly at a delimiter that is
\* outside quotes and not escaped by a backslash; a backslash escapes exactly
\* the next character; quotes and backslashes stay in the field text; every
\* field is trimmed. The number of fields is one plus the number of such
\* delimiters, at least 1 even for the empty input.
C21_FieldsAreCutsTrimmed ==
  pc = "fields" =>
    LET str == Join(input.v, <<input.delimiter>>)
        n == Cardinality(Cuts(str, input.delimiter))
    IN /\ Len(output) = n + 1
       /\ \A k \in 1..(n + 1) :
            output[k] = Trim(SubSeq(str, CutAt(str, input.delimiter, k - 1) + 1,
                                    CutAt(str, input.delimiter, k) - 1))

C21_Witness ==
  /\ pc = "fields"
  /\ input.delimiter = ","
  /\ Join(input.v, <<",">>) = <<BS, ",", ",", DQ, ",", DQ>>
  /\ output = <<<<BS, ",">>, <<DQ, ",", DQ>>>>

\* the first unescaped quote of t after its opening quote; 0 if there is none
ClosingQuote(t) ==
  LET closers == {i \in 2..Len(t) : t[i] = DQ /\ ~Escaped(t, i)}
  IN IF closers = {} THEN 0 ELSE CHOOSE i \in closers : \A j \in closers : i <= j

\* the length of the longest prefix of t of word characters, dots and hyphens
KeyPrefix(t) ==
  CHOOSE n \in 0..Len(t) :
    /\ \A j \in 1..n : t[j] \in WordChar \cup {".", "-"}
    /\ (n = Len(t) \/ t[n + 1] \notin WordChar \cup {".", "-"})

NestedValue(form) ==
  CASE form = "primitive" -> VNum(0, 7, 0)
    [] form = "object" -> VObj(<<<<"a">>>>, <<VNum(0, 1, 0)>>)
    [] form = "fields" -> VObj(<<<<"a">>, <<"b">>>>, <<VNum(0, 1, 0), VNum(0, 2, 0)>>)

\* the one item of the outer list: xs, and the sibling field c when written
OuterItem(forms, sibling) ==
  LET xs == VArr([i \in 1..Len(forms) |-> NestedValue(forms[i])])
  IN IF sibling THEN VObj(<<<<"x", "s">>, <<"c">>>>, <<xs, VNum(0, 3, 0)>>)
     ELSE VObj(<<<<"x", "s">>>>, <<xs>>)

\* C23: when parseArray or parseRootArray hands over to parseListFormat the
\* caller resumes at the first line after the array, so no line is parsed
\* twice: a field line of an item of a nested list is never also a field of
\* the enclosing list item.
C23_NestedListLinesReadOnce ==
  pc = "decoded" =>
    /\ ~Failed(output)
    /\ LET outer == VArr(<<OuterItem(input.forms, input.sibling)>>)
       IN output.v = IF input.keyed THEN VObj(<<<<"y", "s">>>>, <<outer>>) ELSE outer

\* a bracket content the header grammar admits: decimal digits, then at most
\* one delimiter character
ValidBracket(b) ==
  LET n == IF b # <<>> /\ b[Len(b)] \in {TAB, "|"} THEN Len(b) - 1 ELSE Len(b)
  IN n >= 1 /\ \A i \in 1..n : b[i] \in Digit

\* C24: decode accepts an array header only if its bracket content is a
\* non-empty run of decimal digits optionally followed by one delimiter
\* character; any other bracket content makes decode fail and never yields
\* an array.
C24_BracketContentValidated ==
  pc = "decoded" /\ ~ValidBracket(input.bracket) => Failed(output)

\* C25: for every string k, parseKey of quoteKey(k) followed by ": v"
\* succeeds with key = k and a rest that begins with a colon, also for the
\* keys needsQuotingAsKey leaves unquoted, and decode of that line yields an
\* object with exactly the key k.
C25_KeyRoundTrip ==
  pc = "keyRead" =>
    /\ ~Failed(output.key)
    /\ output.key.v.found
    /\ output.key.v.key = input.key
    /\ output.key.v.rest # <<>> /\ output.key.v.rest[1] = ":"
    /\ ~Failed(output.decoded)
    /\ output.decoded.v.t = "obj"
    /\ output.decoded.v.k = <<input.key>>

\* C26: for every string s and delimiter d, splitByDelimiter of
\* quoteString(s, inArray, d) returns exactly one field and parsePrimitive of
\* that field returns the string s; hence the quoteString forms of a list of
\* strings, joined with d and split again, give as many fields and the same
\* strings.
C26_ElementRoundTrip ==
  pc = "elements" =>
    /\ \A i \in 1..Len(input.v) : Len(output.each[i]) = 1
    /\ Len(output.fields) = Len(input.v)
    /\ \A i \in 1..Len(input.v) :
         /\ output.fields[i] = output.each[i][1]
         /\ output.values[i] = Ret(VStr(input.v[i]))
         /\ output.replaced[i] = Ret(VStr(input.v[i]))

\* C26 with the scanning unescapeString alone
C26_ElementRoundTripScanning ==
  pc = "elements" =>
    /\ Len(output.fields) = Len(input.v)
    /\ \A i \in 1..Len(input.v) : output.values[i] = Ret(VStr(input.v[i]))

\* C27: in each loop of parseLines, parseListFormat (its item loop and its
\* additional-fields loop), parseArray and parseTabular every iteration
\* moves the line cursor strictly forward (a sub-parser's result moves it
\* by at least one line) and never past the end of the lines, so that the
\* number of lines left is a variant of the loop; the loops that parseArray,
\* parseTabular and parseListFormat run for a header begin after the
\* header's line, and a nested parseLines begins after the line that
\* called it. Hence every loop returns and decode terminates
C27_CursorAdvances ==
  /\ [][~output'.exit => /\ output'.lineIndex > output.lineIndex
                         /\ output'.from = output.lineIndex
                         /\ \A k \in 1..Len(output'.nested) :
                              output'.nested[k] > output.lineIndex]_vars
  /\ [](output.lineIndex <= Len(input.lines))
  /\ [](pc \in {"parseTabular", "parseListFormat", "parseArray", "itemFields"}
          => output.lineIndex > input.at)

\* A sub-parser called from the parseLines loop took several lines at once
C27_Witness ==
  /\ pc = "parseLines"
  /\ ~output.exit
  /\ output.lineIndex >= output.from + 2

====
